---- MODULE Spec2Model ----
(***************************************************************************)
(* Model of the incremental thumbnail build pipeline of the gallery        *)
(* generator: src/generator/thumbnails.py (ThumbnailGenerator),            *)
(* src/generator/cache.py (BuildCache, CacheEntry), src/generator/utils.py *)
(* (content hashing) and the record validation of src/generator/model.py.  *)
(*                                                                         *)
(* The file system is part of the state: the source images (content and    *)
(* mtime), the thumbnail output directory and the JSON cache file.         *)
(***************************************************************************)
EXTENDS Integers, Sequences, FiniteSets, TLC

(***************************************************************************)
(* Bounds of the model.                                                    *)
(***************************************************************************)
\* number of ThumbnailGenerator constructions (builds) in one behaviour
MaxRuns == 3
\* number of modifications the environment makes to files between builds
MaxMods == 1
\* longest source_paths list handed to generate_batch
MaxBatch == 2

(***************************************************************************)
(* Program constants.                                                      *)
(***************************************************************************)
CACHE_VERSION == "1.0"
CONTENT_HASH_LENGTH == 8
DEFAULT_THUMBNAIL_MAX_DIMENSION == 800
BLUR_TARGET_SIZE == 20
BLUR_MIN_DIMENSION == 5
BLUR_MAX_DIMENSION == 50

\* config.output_dir, the directory the thumbnails are written to
OutputDir == "thumbs"

(***************************************************************************)
(* Source files and their possible contents.  A content is identified by   *)
(* a name; ImageTable gives what the image codec reports for it: whether   *)
(* it decodes, its pixel size, its byte size, whether piexif can load its  *)
(* EXIF, and the length of the data URL of its placeholder.                *)
(*   img1    an ordinary landscape photo with readable EXIF                *)
(*   img2    a small image whose EXIF cannot be loaded                     *)
(*   pano    a panorama: the thumbnail works, the 20px placeholder is      *)
(*           20x1 and fails BlurPlaceholder's dimension validation         *)
(*   sliver  decodable, but its thumbnail height rounds down to 0          *)
(*   garbage bytes that are no image                                       *)
(***************************************************************************)
Files == {"a.jpg", "a-b.jpg", "a.png"}

Absent == "absent"

Contents == {"img1", "img2", "pano", "sliver", "garbage"}

ImageTable ==
  [ img1    |-> [decodable |-> TRUE,  w |-> 4000, h |-> 3000, size |-> 5000, exif |-> TRUE,  url |-> 412],
    img2    |-> [decodable |-> TRUE,  w |-> 600,  h |-> 400,  size |-> 900,  exif |-> FALSE, url |-> 380],
    pano    |-> [decodable |-> TRUE,  w |-> 4000, h |-> 100,  size |-> 3000, exif |-> TRUE,  url |-> 300],
    sliver  |-> [decodable |-> TRUE,  w |-> 4000, h |-> 2,    size |-> 700,  exif |-> TRUE,  url |-> 300],
    garbage |-> [decodable |-> FALSE, w |-> 0,    h |-> 0,    size |-> 64,   exif |-> FALSE, url |-> 0] ]

\* leading hex characters of the SHA-256 digest of the content bytes; the
\* last two contents are byte strings whose digests share the first 8
\* characters
Sha256Hex ==
  [ img1 |-> "d7bdd545f09d8a73", img2 |-> "6987740fb624e3e9",
    pano |-> "10582686459187ee", sliver |-> "66cb86b497f2b457",
    garbage |-> "795b6904e54f8241",
    css1 |-> "a935b8597a3c4881", css2 |-> "ff484c0e2df6b8c5" ]
    @@ ("photo-33730" :> "c2e3711fbf6551db")
    @@ ("photo-54795" :> "c2e3711f2394acae")

(***************************************************************************)
(* Strings: paths and file names are strings, as in the program.           *)
(***************************************************************************)
Max(S) == CHOOSE x \in S : \A y \in S : y <= x

Positions(s, ch) == {i \in 1..Len(s) : SubSeq(s, i, i) = ch}

StartsWith(s, p) == Len(p) <= Len(s) /\ SubSeq(s, 1, Len(p)) = p

EndsWith(s, p) == Len(p) <= Len(s) /\ SubSeq(s, Len(s) - Len(p) + 1, Len(s)) = p

\* Python's  sub in s
Contains(s, sub) ==
  \E i \in 1..(Len(s) - Len(sub) + 1) : SubSeq(s, i, i + Len(sub) - 1) = sub

\* pathlib: Path(p).name
PathName(p) ==
  LET P == Positions(p, "/")
  IN  IF P = {} THEN p ELSE SubSeq(p, Max(P) + 1, Len(p))

\* pathlib: Path(p).stem, the name without its last suffix
PathStem(p) ==
  LET n == PathName(p)
      D == Positions(n, ".") \ {1, Len(n)}
  IN  IF D = {} THEN n ELSE SubSeq(n, 1, Max(D) - 1)

\* pathlib: Path(p).suffix, what the stem leaves of the name
PathSuffix(p) == SubSeq(PathName(p), Len(PathStem(p)) + 1, Len(PathName(p)))

\* pathlib: output_dir / filename, as str
JoinPath(dir, name) == dir \o "/" \o name

\* pathlib glob of one directory with the pattern  prefix*suffix
GlobMatch(name, prefix, suffix) ==
  /\ Len(name) >= Len(prefix) + Len(suffix)
  /\ StartsWith(name, prefix)
  /\ EndsWith(name, suffix)

HexDigits == {"0","1","2","3","4","5","6","7","8","9","a","b","c","d","e","f"}

IsLowerHex(s) == \A i \in 1..Len(s) : SubSeq(s, i, i) \in HexDigits

(***************************************************************************)
(* Optional values (Python's None).                                        *)
(***************************************************************************)
None == [some |-> FALSE]

Some(x) == [some |-> TRUE, v |-> x]

(***************************************************************************)
(* utils.py: content hashing.                                              *)
(***************************************************************************)
\* hash_bytes without the [:CONTENT_HASH_LENGTH]
hash_bytes_FullDigest(data) == Sha256Hex[data]

\* hexdigest()[:CONTENT_HASH_LENGTH] of the bytes of a content
hash_bytes(data) == SubSeq(Sha256Hex[data], 1, CONTENT_HASH_LENGTH)

\* utils.hash_file of a path in a directory: FileNotFoundError for a file
\* that does not exist, else the digest of the file's bytes read in chunks
HashFile(files, file_path) ==
  IF file_path \notin DOMAIN files \/ files[file_path] = Absent
    THEN [raised |-> TRUE, exc |-> "FileNotFoundError", value |-> ""]
    ELSE [raised |-> FALSE, exc |-> "", value |-> hash_bytes(files[file_path])]

(***************************************************************************)
(* JSON documents, as json.loads / json.dumps see them.  The cache file is *)
(* a document, a text that is no JSON ("invalid"), or absent.              *)
(***************************************************************************)
JStr(s) == [t |-> "str", s |-> s]

JNum(n) == [t |-> "num", n |-> n]

JBool(b) == [t |-> "bool", b |-> b]

JNull == [t |-> "null"]

JList == [t |-> "list"]

JObj(o) == [t |-> "obj", o |-> o]

JInvalid == [t |-> "invalid"]

JAbsent == [t |-> "absent"]

\* datetime.isoformat() of the time n, and its inverse as pydantic parses it
IsoFormat(n) == "T" \o ToString(n)

TimeRange == 0..(MaxMods + 1)

IsIso(s) == \E n \in TimeRange : IsoFormat(n) = s

FromIso(s) == CHOOSE n \in TimeRange : IsoFormat(n) = s

\* numeric strings pydantic's lax mode turns into an int
DigitStrings == {ToString(n) : n \in 0..9}

ParseInt(s) == CHOOSE n \in 0..9 : ToString(n) = s

(***************************************************************************)
(* State.                                                                  *)
(***************************************************************************)
VARIABLES
  srcContent,       \* source file -> its content, or Absent
  srcMtime,         \* source file -> st_mtime
  clock,            \* the wall clock (datetime.now(), new mtimes)
  mods,             \* modifications made by the environment so far
  thumbDir,         \* thumbnail path -> [owner, content]: the files of output_dir
  cacheFile,        \* the document stored in config.cache_file
  pc,               \* "none" | "idle" | "batch" | "done" | "aborted" | "loaded"
  runs,             \* generators constructed so far
  cfgBlur,          \* blur_placeholder_config.enabled
  cfgCache,         \* config.enable_cache
  cache,            \* self.cache: the in-memory BuildCache
  source_paths,     \* generate_batch: its argument
  idx,              \* generate_batch: number of items processed
  successful,       \* generate_batch: records collected
  failed,           \* generate_batch: paths collected
  counts,           \* generate_batch: generated_count, cached_count
  progress,         \* calls made to progress_callback
  processed,        \* generate_batch: the paths the loop body has run for
  regenLog,         \* this batch: path -> outputs of its regeneration
  lastCall,         \* outcome of the latest generate_thumbnail call
  ioLog,            \* unlink/write events on output_dir during this batch
  cacheAtConstruct, \* cacheFile as load_cache found it
  saveCount,        \* writes of the cache file by this generator
  savedCache,       \* self.cache as save_cache serialized it last
  touched,          \* sources modified since their saved cache entry was made
  prevRun,          \* summary of the previous batch, completed or aborted
  loadResult,       \* outcome of load_cache
  probe,            \* a call of a function: its name, arguments and result
  destDir,          \* file name -> content: the files of the site output directory
  yamlFile          \* the document stored in gallery_yaml_path

\* the thumbnail generator and the files it works on
thumbVars == << srcContent, srcMtime, clock, mods, thumbDir, cacheFile, pc, runs,
                cfgBlur, cfgCache, cache, source_paths, idx, successful, failed,
                counts, progress, processed, regenLog, lastCall, ioLog, cacheAtConstruct, saveCount,
                savedCache, touched, prevRun, loadResult >>

\* what the thumbnail generator does not touch
otherVars == << probe, destDir, yamlFile >>

vars == << thumbVars, otherVars >>

(***************************************************************************)
(* cache.py: CacheEntry and BuildCache.                                    *)
(***************************************************************************)
NoEntries == [p \in {} |-> None]

\* BuildCache(): the defaults of the model
BuildCache(now) ==
  [entries |-> NoEntries, cache_version |-> CACHE_VERSION, last_updated |-> now]

\* is_valid without the comparison of the content hashes
is_valid_NoHashCheck(entry, current_source_hash, blur_config_enabled) ==
  ~(blur_config_enabled /\ ~entry.blur_placeholder_hash.some)

\* CacheEntry.is_valid
is_valid(entry, current_source_hash, blur_config_enabled) ==
  IF blur_config_enabled /\ ~entry.blur_placeholder_hash.some THEN FALSE
  ELSE IF entry.content_hash # current_source_hash THEN FALSE
  ELSE TRUE

\* should_regenerate on any difference of the mtimes
should_regenerate_OnAnyChange(c, source_path, current_mtime) ==
  IF source_path \notin DOMAIN c.entries THEN TRUE
  ELSE current_mtime # c.entries[source_path].source_mtime

\* BuildCache.should_regenerate; current_mtime is source_path.stat().st_mtime
should_regenerate(c, source_path, current_mtime) ==
  IF source_path \notin DOMAIN c.entries THEN TRUE
  ELSE current_mtime > c.entries[source_path].source_mtime

\* the CacheEntry that update_entry builds from a ThumbnailImage
CacheEntryOf(source_path, current_mtime, thumbnail) ==
  [ source_path |-> source_path,
    source_mtime |-> current_mtime,
    webp_path |-> thumbnail.webp_path,
    jpeg_path |-> thumbnail.jpeg_path,
    content_hash |-> thumbnail.content_hash,
    thumbnail_generated_at |-> thumbnail.generated_at,
    metadata_stripped |-> thumbnail.metadata_stripped,
    width |-> thumbnail.width,
    height |-> thumbnail.height,
    webp_size_bytes |-> thumbnail.webp_size_bytes,
    jpeg_size_bytes |-> thumbnail.jpeg_size_bytes,
    source_size_bytes |-> thumbnail.source_size_bytes,
    blur_placeholder_hash |->
      IF thumbnail.blur_placeholder.some
      THEN Some(thumbnail.blur_placeholder.v.source_hash) ELSE None,
    blur_placeholder_generated_at |->
      IF thumbnail.blur_placeholder.some
      THEN Some(thumbnail.blur_placeholder.v.generated_at) ELSE None ]

\* update_entry that merges: the blur placeholder fields of a previous entry
\* stay when the new record has no placeholder
update_entry_Merge(c, source_path, current_mtime, thumbnail, now) ==
  LET new == CacheEntryOf(source_path, current_mtime, thumbnail)
      merged ==
        IF source_path \in DOMAIN c.entries /\ ~thumbnail.blur_placeholder.some
        THEN [ new EXCEPT
                 !.blur_placeholder_hash = c.entries[source_path].blur_placeholder_hash,
                 !.blur_placeholder_generated_at =
                   c.entries[source_path].blur_placeholder_generated_at ]
        ELSE new
  IN  [ c EXCEPT
          !.entries = [ p \in DOMAIN c.entries \cup {source_path} |->
                          IF p = source_path THEN merged ELSE c.entries[p] ],
          !.last_updated = now ]

\* BuildCache.update_entry
update_entry(c, source_path, current_mtime, thumbnail, now) ==
  [ c EXCEPT
      !.entries = [ p \in DOMAIN c.entries \cup {source_path} |->
                      IF p = source_path
                      THEN CacheEntryOf(source_path, current_mtime, thumbnail)
                      ELSE c.entries[p] ],
      !.last_updated = now ]

(***************************************************************************)
(* Serialization of the cache: model_dump(mode="json") and json.dumps.     *)
(***************************************************************************)
DumpOptStr(x) == IF x.some THEN JStr(x.v) ELSE JNull

DumpOptTime(x) == IF x.some THEN JStr(IsoFormat(x.v)) ELSE JNull

\* a dump that leaves out the placeholder hash
DumpEntry_DropsBlurHash(e) ==
  JObj([ source_path |-> JStr(e.source_path),
         source_mtime |-> JNum(e.source_mtime),
         webp_path |-> JStr(e.webp_path),
         jpeg_path |-> JStr(e.jpeg_path),
         content_hash |-> JStr(e.content_hash),
         thumbnail_generated_at |-> JStr(IsoFormat(e.thumbnail_generated_at)),
         metadata_stripped |-> JBool(e.metadata_stripped),
         width |-> JNum(e.width),
         height |-> JNum(e.height),
         webp_size_bytes |-> JNum(e.webp_size_bytes),
         jpeg_size_bytes |-> JNum(e.jpeg_size_bytes),
         source_size_bytes |-> JNum(e.source_size_bytes),
         blur_placeholder_generated_at |-> DumpOptTime(e.blur_placeholder_generated_at) ])

DumpEntry(e) ==
  JObj([ source_path |-> JStr(e.source_path),
         source_mtime |-> JNum(e.source_mtime),
         webp_path |-> JStr(e.webp_path),
         jpeg_path |-> JStr(e.jpeg_path),
         content_hash |-> JStr(e.content_hash),
         thumbnail_generated_at |-> JStr(IsoFormat(e.thumbnail_generated_at)),
         metadata_stripped |-> JBool(e.metadata_stripped),
         width |-> JNum(e.width),
         height |-> JNum(e.height),
         webp_size_bytes |-> JNum(e.webp_size_bytes),
         jpeg_size_bytes |-> JNum(e.jpeg_size_bytes),
         source_size_bytes |-> JNum(e.source_size_bytes),
         blur_placeholder_hash |-> DumpOptStr(e.blur_placeholder_hash),
         blur_placeholder_generated_at |-> DumpOptTime(e.blur_placeholder_generated_at) ])

model_dump(c) ==
  JObj([ entries |-> JObj([p \in DOMAIN c.entries |-> DumpEntry(c.entries[p])]),
         cache_version |-> JStr(c.cache_version),
         last_updated |-> JStr(IsoFormat(c.last_updated)) ])

(***************************************************************************)
(* Validation of a parsed document: BuildCache of the parsed dict, with       *)
(* pydantic's defaults for missing optional fields and its lax coercions.  *)
(***************************************************************************)
Has(o, k) == k \in DOMAIN o

StrOk(j) == j.t = "str"

IntOk(j) == j.t = "num" \/ (j.t = "str" /\ j.s \in DigitStrings)

ToInt(j) == IF j.t = "num" THEN j.n ELSE ParseInt(j.s)

BoolOk(j) == j.t = "bool"

TimeOk(j) == j.t = "num" \/ (j.t = "str" /\ IsIso(j.s))

ToTime(j) == IF j.t = "num" THEN j.n ELSE FromIso(j.s)

OptStrOk(j) == j.t = "null" \/ StrOk(j)

OptTimeOk(j) == j.t = "null" \/ TimeOk(j)

\* does CacheEntry of the dict j validate
EntryOk(j) ==
  /\ j.t = "obj"
  /\ (Has(j.o, "source_path") /\ StrOk(j.o["source_path"]))
  /\ (Has(j.o, "source_mtime") /\ IntOk(j.o["source_mtime"]))
  /\ (Has(j.o, "webp_path") /\ StrOk(j.o["webp_path"]))
  /\ (Has(j.o, "jpeg_path") /\ StrOk(j.o["jpeg_path"]))
  /\ (Has(j.o, "content_hash") /\ StrOk(j.o["content_hash"]))
  /\ (Has(j.o, "thumbnail_generated_at") /\ TimeOk(j.o["thumbnail_generated_at"]))
  /\ (~Has(j.o, "metadata_stripped") \/ BoolOk(j.o["metadata_stripped"]))
  /\ (~Has(j.o, "width") \/ IntOk(j.o["width"]))
  /\ (~Has(j.o, "height") \/ IntOk(j.o["height"]))
  /\ (~Has(j.o, "webp_size_bytes") \/ IntOk(j.o["webp_size_bytes"]))
  /\ (~Has(j.o, "jpeg_size_bytes") \/ IntOk(j.o["jpeg_size_bytes"]))
  /\ (~Has(j.o, "source_size_bytes") \/ IntOk(j.o["source_size_bytes"]))
  /\ (~Has(j.o, "blur_placeholder_hash") \/ OptStrOk(j.o["blur_placeholder_hash"]))
  /\ (~Has(j.o, "blur_placeholder_generated_at") \/ OptTimeOk(j.o["blur_placeholder_generated_at"]))

IntField(o, k) == IF Has(o, k) THEN ToInt(o[k]) ELSE 0

\* the CacheEntry that CacheEntry of the dict j constructs
ParseEntry(j) ==
  LET o == j.o
  IN  [ source_path |-> o["source_path"].s,
        source_mtime |-> ToInt(o["source_mtime"]),
        webp_path |-> o["webp_path"].s,
        jpeg_path |-> o["jpeg_path"].s,
        content_hash |-> o["content_hash"].s,
        thumbnail_generated_at |-> ToTime(o["thumbnail_generated_at"]),
        metadata_stripped |->
          IF Has(o, "metadata_stripped") THEN o["metadata_stripped"].b ELSE TRUE,
        width |-> IntField(o, "width"),
        height |-> IntField(o, "height"),
        webp_size_bytes |-> IntField(o, "webp_size_bytes"),
        jpeg_size_bytes |-> IntField(o, "jpeg_size_bytes"),
        source_size_bytes |-> IntField(o, "source_size_bytes"),
        blur_placeholder_hash |->
          IF Has(o, "blur_placeholder_hash") /\ o["blur_placeholder_hash"].t = "str"
          THEN Some(o["blur_placeholder_hash"].s) ELSE None,
        blur_placeholder_generated_at |->
          IF Has(o, "blur_placeholder_generated_at")
             /\ o["blur_placeholder_generated_at"].t # "null"
          THEN Some(ToTime(o["blur_placeholder_generated_at"])) ELSE None ]

\* does BuildCache of the parsed dict validate
BuildCacheOk(o) ==
  /\ \/ ~Has(o, "entries")
     \/ /\ o["entries"].t = "obj"
        /\ \A p \in DOMAIN o["entries"].o : EntryOk(o["entries"].o[p])
  /\ (~Has(o, "cache_version") \/ StrOk(o["cache_version"]))
  /\ (~Has(o, "last_updated") \/ TimeOk(o["last_updated"]))

ParseBuildCache(o, now) ==
  [ entries |->
      IF Has(o, "entries")
      THEN [p \in DOMAIN o["entries"].o |-> ParseEntry(o["entries"].o[p])]
      ELSE NoEntries,
    cache_version |->
      IF Has(o, "cache_version") THEN o["cache_version"].s ELSE CACHE_VERSION,
    last_updated |->
      IF Has(o, "last_updated") THEN ToTime(o["last_updated"]) ELSE now ]

(***************************************************************************)
(* ThumbnailGenerator.load_cache.  The result is the cache returned, or    *)
(* the exception that leaves the method.                                   *)
(***************************************************************************)
Returned(c) == [raised |-> FALSE, exc |-> "", cache |-> c]

Raised(e, now) == [raised |-> TRUE, exc |-> e, cache |-> BuildCache(now)]

\* load_cache without the validation of the version tag
load_cache_NoVersionCheck(file, now) ==
  IF file.t = "absent" THEN Returned(BuildCache(now))
  ELSE IF file.t = "invalid" THEN Returned(BuildCache(now))
  ELSE IF file.t # "obj" THEN Raised("AttributeError", now)
  ELSE IF BuildCacheOk(file.o) THEN Returned(ParseBuildCache(file.o, now))
  ELSE Returned(BuildCache(now))

load_cache(file, now) ==
  IF file.t = "absent" THEN Returned(BuildCache(now))
  ELSE IF file.t = "invalid" THEN Returned(BuildCache(now))      \* JSONDecodeError
  ELSE IF file.t # "obj" THEN Raised("AttributeError", now)      \* cache_data.get
  ELSE IF ~Has(file.o, "cache_version")
          \/ file.o["cache_version"] # JStr(CACHE_VERSION)
       THEN Returned(BuildCache(now))
  ELSE IF BuildCacheOk(file.o) THEN Returned(ParseBuildCache(file.o, now))
  ELSE Returned(BuildCache(now))                                 \* ValidationError

(***************************************************************************)
(* thumbnails.py: dimensions.                                              *)
(***************************************************************************)
MaxOf(a, b) == IF a >= b THEN a ELSE b

MinOf(a, b) == IF a <= b THEN a ELSE b

\* The (source_width, source_height, max_dimension) for which the double
\* max_dimension / (source_width / source_height)  is just below the integer
\* that the exact quotient is, among all sizes up to 40 and those of ImageTable.
\* For no such sizes is  max_dimension * (source_width / source_height)  off.
FloatBelowQuotient ==
  { << 18, 14, 9 >>, << 27, 21, 9 >>, << 27, 21, 18 >>, << 36, 14, 18 >>,
    << 36, 28, 9 >>, << 36, 28, 18 >> }

\* int(max_dimension / aspect_ratio) with aspect_ratio = source_width / source_height
IntOfQuotient(source_width, source_height, max_dimension) ==
  IF << source_width, source_height, max_dimension >> \in FloatBelowQuotient
  THEN (max_dimension * source_height) \div source_width - 1
  ELSE (max_dimension * source_height) \div source_width

\* a calculation that scales every image to max_dimension
calculate_thumbnail_dimensions_Upscale(source_width, source_height, max_dimension) ==
  IF source_width >= source_height
  THEN << max_dimension, IntOfQuotient(source_width, source_height, max_dimension) >>
  ELSE << (max_dimension * source_width) \div source_height, max_dimension >>

\* calculate_thumbnail_dimensions
calculate_thumbnail_dimensions(source_width, source_height, max_dimension) ==
  IF MaxOf(source_width, source_height) <= max_dimension
  THEN << source_width, source_height >>
  ELSE IF source_width >= source_height
       THEN << max_dimension, IntOfQuotient(source_width, source_height, max_dimension) >>
       ELSE << (max_dimension * source_width) \div source_height, max_dimension >>

\* PIL's round_aspect: the closer of floor and ceil, at least 1
RoundAspect(num, den) == MaxOf((2 * num + den) \div (2 * den), 1)

\* Image.thumbnail((bw, bh)) on a w x h image: the size it resizes to, or the
\* exception of its  x / y  when the box has height 0 (and of resize for width 0)
PilThumbnailSize(w, h, bw, bh) ==
  IF bw >= w /\ bh >= h THEN [ok |-> TRUE, w |-> w, h |-> h]
  ELSE IF bh = 0 \/ bw = 0 THEN [ok |-> FALSE, w |-> 0, h |-> 0]
  ELSE IF bw * h >= w * bh
       THEN [ok |-> TRUE, w |-> MinOf(RoundAspect(bh * w, h), w), h |-> MinOf(bh, h)]
       ELSE [ok |-> TRUE, w |-> MinOf(bw, w), h |-> MinOf(RoundAspect(bw * h, w), h)]

\* byte sizes of the encoded thumbnail files (st_size), positive for any image
WebpSize(w, h) == (w * h) \div 50 + 1

JpegSize(w, h) == (w * h) \div 30 + 1

(***************************************************************************)
(* model.py: validation of BlurPlaceholder and ThumbnailImage.             *)
(***************************************************************************)
\* BlurPlaceholder(...) validates
ValidBlurPlaceholder(b) ==
  /\ b.data_url_len >= 50 /\ b.data_url_len <= 2000
  /\ b.size_bytes >= 0 /\ b.size_bytes <= 2000
  /\ MaxOf(b.dimensions[1], b.dimensions[2]) <= BLUR_MAX_DIMENSION
  /\ MinOf(b.dimensions[1], b.dimensions[2]) >= BLUR_MIN_DIMENSION
  /\ b.blur_radius >= 5 /\ b.blur_radius <= 20
  /\ Len(b.source_hash) = 8 /\ IsLowerHex(b.source_hash)

\* a ThumbnailImage whose blur_placeholder field is required
ValidThumbnailImage_PlaceholderRequired(r) ==
  /\ Len(r.source_filename) >= 1
  /\ r.width > 0 /\ r.height > 0
  /\ r.webp_size_bytes > 0 /\ r.jpeg_size_bytes > 0 /\ r.source_size_bytes > 0
  /\ Len(r.content_hash) = 8
  /\ r.blur_placeholder.some

\* ThumbnailImage(...) validates
ValidThumbnailImage(r) ==
  /\ Len(r.source_filename) >= 1
  /\ r.width > 0 /\ r.height > 0
  /\ r.webp_size_bytes > 0 /\ r.jpeg_size_bytes > 0 /\ r.source_size_bytes > 0
  /\ Len(r.content_hash) = 8

(***************************************************************************)
(* thumbnails.py: generate_blur_placeholder.  Any exception yields None.   *)
(***************************************************************************)
BLUR_RADIUS == 10

generate_blur_placeholder(content, now) ==
  LET info == ImageTable[content]
      size == PilThumbnailSize(info.w, info.h, BLUR_TARGET_SIZE, BLUR_TARGET_SIZE)
      b == [ data_url_len |-> info.url,
             size_bytes |-> info.url,
             dimensions |-> << size.w, size.h >>,
             blur_radius |-> BLUR_RADIUS,
             source_hash |-> hash_bytes(content),
             generated_at |-> now ]
  IN  IF ~info.decodable \/ ~size.ok THEN None
      ELSE IF ~ValidBlurPlaceholder(b) THEN None
      ELSE Some(b)

(***************************************************************************)
(* thumbnails.py: the output directory.                                    *)
(***************************************************************************)
\* Path.exists that finds every file
Exists_Always(dir, path) == TRUE

Exists(dir, path) == path \in DOMAIN dir

\* a cleanup that globs the .webp files only
_cleanup_old_thumbnails_WebpOnly(dir, stem, current_hash) ==
  { f \in DOMAIN dir :
      /\ StartsWith(f, OutputDir \o "/")
      /\ GlobMatch(PathName(f), stem \o "-", ".webp")
      /\ ~Contains(PathName(f), current_hash) }

\* _cleanup_old_thumbnails: the files it unlinks
_cleanup_old_thumbnails(dir, stem, current_hash) ==
  { f \in DOMAIN dir :
      /\ StartsWith(f, OutputDir \o "/")
      /\ \/ GlobMatch(PathName(f), stem \o "-", ".webp")
         \/ GlobMatch(PathName(f), stem \o "-", ".jpg")
      /\ ~Contains(PathName(f), current_hash) }

\* filter_metadata(source_path) on a file: the cleaned EXIF bytes, or None
\* when piexif cannot load the file (the exception is caught)
FilterMetadataOf(content) ==
  IF ImageTable[content].exif THEN Some("cleaned:" \o content) ELSE None

\* a save that falls back to the EXIF bytes of the source
ExifArgument_KeepSource(cleaned_exif, content) ==
  IF cleaned_exif.some THEN cleaned_exif.v ELSE "source:" \o content

\* thumb.save(..., exif=cleaned_exif if cleaned_exif else b"")
ExifArgument(cleaned_exif, content) ==
  IF cleaned_exif.some THEN cleaned_exif.v ELSE ""

\* output names that also carry the number of the build
ThumbnailBaseName_PerRun(stem, content_hash) ==
  stem \o "-" \o content_hash \o "-" \o SubSeq("123456789", runs, runs)

\* f"{stem}-{content_hash}"
ThumbnailBaseName(stem, content_hash) == stem \o "-" \o content_hash

\* the files of the output directory named '{stem}-{8 hex chars}.webp' or
\* '{stem}-{8 hex chars}.jpg'
StemOutputs(dir, stem) ==
  { f \in DOMAIN dir :
      \E ext \in {".webp", ".jpg"} :
      \E h \in {SubSeq(PathName(f), Len(stem) + 2, Len(PathName(f)) - Len(ext))} :
        /\ StartsWith(f, OutputDir \o "/")
        /\ Len(h) = CONTENT_HASH_LENGTH /\ IsLowerHex(h)
        /\ PathName(f) = stem \o "-" \o h \o ext }

OwnerOf(dir, f) == IF f \in DOMAIN dir THEN dir[f].owner ELSE Absent

\* _save_thumbnails: cleanup, metadata filter, then the two thumb.save calls
_save_thumbnails(dir, source_path, content, content_hash) ==
  LET stem == PathStem(source_path)
      webp_path == JoinPath(OutputDir, ThumbnailBaseName(stem, content_hash) \o ".webp")
      jpeg_path == JoinPath(OutputDir, ThumbnailBaseName(stem, content_hash) \o ".jpg")
      old == _cleanup_old_thumbnails(dir, stem, content_hash)
      kept == DOMAIN dir \ old
      cleaned_exif == FilterMetadataOf(content)
      cleaned_exif_ok == cleaned_exif.some
      file == [owner |-> source_path, content |-> content,
               exif |-> ExifArgument(cleaned_exif, content)]
  IN  [ dir |-> [f \in kept \cup {webp_path, jpeg_path} |->
                   IF f \in {webp_path, jpeg_path} THEN file ELSE dir[f]],
        events |->
          {[op |-> "unlink", path |-> f, prev |-> dir[f].owner, by |-> source_path] :
             f \in old}
          \cup
          {[op |-> "write", path |-> f,
            prev |-> IF f \in kept THEN dir[f].owner ELSE Absent,
            by |-> source_path] : f \in {webp_path, jpeg_path}},
        webp_path |-> webp_path,
        jpeg_path |-> jpeg_path,
        metadata_stripped |-> cleaned_exif_ok,
        strip_warning |->
          IF cleaned_exif_ok THEN None
          ELSE Some("Metadata filtering failed for " \o PathName(source_path)) ]

(***************************************************************************)
(* thumbnails.py: the per-image pipeline.  An outcome says how the call    *)
(* ended (a record, None or an exception) and what it left behind: the     *)
(* output directory, the in-memory cache and the file events.              *)
(***************************************************************************)
\* the attributes a CacheEntry has (cache.py); reading another one raises
CacheEntryFields ==
  { "source_path", "source_mtime", "webp_path", "jpeg_path", "content_hash",
    "thumbnail_generated_at", "metadata_stripped", "width", "height",
    "webp_size_bytes", "jpeg_size_bytes", "source_size_bytes",
    "blur_placeholder_hash", "blur_placeholder_generated_at" }

\* utils.hash_file of an existing source file
hash_file(source_path) == hash_bytes(srcContent[source_path])

Outcome(kind, exc, rec, cached, dir, c, events) ==
  [ kind |-> kind, exc |-> exc, rec |-> rec, cached |-> cached,
    dir |-> dir, cache |-> c, events |-> events ]

\* the size of the thumbnail stored in a file of the output directory
StoredSize(dir, path) ==
  LET info == ImageTable[dir[path].content]
      d == calculate_thumbnail_dimensions(info.w, info.h, DEFAULT_THUMBNAIL_MAX_DIMENSION)
  IN  PilThumbnailSize(info.w, info.h, d[1], d[2])

\* _load_from_cache: "none" (fall through to regeneration), "record" or "raise"
_load_from_cache(source_path) ==
  LET miss == [kind |-> "none", exc |-> "", rec |-> None]
  IN
  IF source_path \notin DOMAIN cache.entries THEN miss
  ELSE
  LET cache_entry == cache.entries[source_path]
      current_hash == hash_file(source_path)
      webp_path == cache_entry.webp_path
      jpeg_path == cache_entry.jpeg_path
  IN
  IF ~is_valid(cache_entry, current_hash, cfgBlur) THEN miss
  ELSE IF ~(Exists(thumbDir, webp_path) /\ Exists(thumbDir, jpeg_path)) THEN miss
  ELSE
  LET fast == cache_entry.width > 0 /\ cache_entry.height > 0
      stored == StoredSize(thumbDir, webp_path)
      content == srcContent[source_path]
      thumbnail ==
        [ source_filename |-> PathName(source_path),
          source_path |-> source_path,
          webp_path |-> webp_path,
          jpeg_path |-> jpeg_path,
          width |-> IF fast THEN cache_entry.width ELSE stored.w,
          height |-> IF fast THEN cache_entry.height ELSE stored.h,
          webp_size_bytes |-> IF fast THEN cache_entry.webp_size_bytes
                              ELSE WebpSize(stored.w, stored.h),
          jpeg_size_bytes |-> IF fast THEN cache_entry.jpeg_size_bytes
                              ELSE JpegSize(stored.w, stored.h),
          source_size_bytes |-> IF fast THEN cache_entry.source_size_bytes
                                ELSE ImageTable[content].size,
          content_hash |-> cache_entry.content_hash,
          generated_at |-> cache_entry.thumbnail_generated_at,
          metadata_stripped |-> cache_entry.metadata_stripped,
          metadata_strip_warning |-> None,
          blur_placeholder |-> None ]
  IN
  IF ~fast /\ ~stored.ok THEN miss
  ELSE IF cfgBlur /\ "blur_placeholder_data_url" \notin CacheEntryFields
       THEN [kind |-> "raise", exc |-> "AttributeError", rec |-> None]
  ELSE IF ~ValidThumbnailImage(thumbnail)
       THEN [kind |-> "raise", exc |-> "ValidationError", rec |-> None]
  ELSE [kind |-> "record", exc |-> "", rec |-> Some(thumbnail)]

\* the try block of generate_thumbnail: regeneration
Regenerate(source_path) ==
  LET content == srcContent[source_path]
      info == ImageTable[content]
      unchanged == Outcome("none", "", None, FALSE, thumbDir, cache, {})
  IN
  IF ~info.decodable THEN unchanged                 \* extract_metadata raises
  ELSE
  LET content_hash == hash_bytes(content)
      d == calculate_thumbnail_dimensions(info.w, info.h, DEFAULT_THUMBNAIL_MAX_DIMENSION)
      thumb == PilThumbnailSize(info.w, info.h, d[1], d[2])
  IN
  IF ~thumb.ok THEN unchanged                       \* _create_thumbnail raises
  ELSE
  LET saved == _save_thumbnails(thumbDir, source_path, content, content_hash)
      thumbnail ==
        [ source_filename |-> PathName(source_path),
          source_path |-> source_path,
          webp_path |-> saved.webp_path,
          jpeg_path |-> saved.jpeg_path,
          width |-> thumb.w,
          height |-> thumb.h,
          webp_size_bytes |-> WebpSize(thumb.w, thumb.h),
          jpeg_size_bytes |-> JpegSize(thumb.w, thumb.h),
          source_size_bytes |-> info.size,
          content_hash |-> content_hash,
          generated_at |-> clock,
          metadata_stripped |-> saved.metadata_stripped,
          metadata_strip_warning |-> saved.strip_warning,
          blur_placeholder |->
            IF cfgBlur THEN generate_blur_placeholder(content, clock) ELSE None ]
  IN
  IF ~ValidThumbnailImage(thumbnail)
  THEN Outcome("none", "", None, FALSE, saved.dir, cache, saved.events)
  ELSE Outcome("record", "", Some(thumbnail), FALSE, saved.dir,
               IF cfgCache
               THEN update_entry(cache, source_path, srcMtime[source_path],
                                 thumbnail, clock)
               ELSE cache,
               saved.events)

\* generate_thumbnail
generate_thumbnail(source_path) ==
  IF srcContent[source_path] = Absent                \* validate_file_exists
  THEN Outcome("raise", "FileNotFoundError", None, FALSE, thumbDir, cache, {})
  ELSE IF cfgCache /\ ~should_regenerate(cache, source_path, srcMtime[source_path])
  THEN LET cached_thumbnail == _load_from_cache(source_path)
       IN  IF cached_thumbnail.kind = "raise"
           THEN Outcome("raise", cached_thumbnail.exc, None, FALSE, thumbDir, cache, {})
           ELSE IF cached_thumbnail.kind = "record"
           THEN Outcome("record", "", cached_thumbnail.rec, TRUE, thumbDir, cache, {})
           ELSE Regenerate(source_path)
  ELSE Regenerate(source_path)

(***************************************************************************)
(* Initial state: the content directory holds two of the file names, no    *)
(* output, no cache file, no generator.  enable_cache is a setting of the  *)
(* project and stays as it is.                                             *)
(***************************************************************************)
InitContents == {"img1", "garbage"}

\* what a call of generate_thumbnail finds: the source file, and for the
\* cache entry of the path its stored mtime, its content hash, its blur
\* placeholder data and the output files it names
CacheCheck(source_path) ==
  LET has == source_path \in DOMAIN cache.entries
      source == srcContent[source_path] # Absent
  IN  [ source |-> source,
        entry |-> has,
        mtime |-> has /\ srcMtime[source_path] <= cache.entries[source_path].source_mtime,
        hash |-> has /\ source
                  /\ hash_bytes(srcContent[source_path])
                       = cache.entries[source_path].content_hash,
        blur |-> has /\ (cfgBlur => cache.entries[source_path].blur_placeholder_hash.some),
        files |-> has /\ cache.entries[source_path].webp_path \in DOMAIN thumbDir
                   /\ cache.entries[source_path].jpeg_path \in DOMAIN thumbDir ]

NoCall ==
  [ path |-> "", kind |-> "", exc |-> "", rec |-> None, cached |-> FALSE,
    before |-> {}, after |-> {},
    check |-> [ source |-> FALSE, entry |-> FALSE, mtime |-> FALSE, hash |-> FALSE,
                blur |-> FALSE, files |-> FALSE ] ]

NoRegenerations == [p \in {} |-> [webp |-> "", jpeg |-> "", files |-> {}]]

NoRun ==
  [ done |-> FALSE, paths |-> << >>, blur |-> FALSE, cacheOn |-> FALSE,
    ok |-> {}, mods |-> 0, aborted |-> FALSE, generated |-> {},
    cacheFile |-> JAbsent, regen |-> NoRegenerations ]

InitGenerator ==
  /\ pc = "none"
  /\ runs = 0
  /\ cfgBlur = FALSE
  /\ cache = BuildCache(0)
  /\ source_paths = << >>
  /\ idx = 0
  /\ successful = << >>
  /\ failed = << >>
  /\ counts = [generated |-> 0, cached |-> 0]
  /\ progress = << >>
  /\ processed = << >>
  /\ regenLog = NoRegenerations
  /\ lastCall = NoCall
  /\ ioLog = {}
  /\ cacheAtConstruct = JAbsent
  /\ saveCount = 0
  /\ savedCache = BuildCache(0)
  /\ touched = {}
  /\ prevRun = NoRun
  /\ loadResult = Returned(BuildCache(0))

\* no function call under observation, no site output, no gallery YAML
NoProbe ==
  [op |-> "none", args |-> << >>, done |-> FALSE, result |-> << >>, pre |-> << >>]

NoFiles == [f \in {} |-> ""]

InitOther ==
  /\ probe = NoProbe
  /\ destDir = NoFiles
  /\ yamlFile = JAbsent

\* no sources, no thumbnails, no cache file, no generator
InitNoThumbs ==
  /\ srcContent = [f \in {} |-> Absent]
  /\ srcMtime = [f \in {} |-> 0]
  /\ cfgCache = TRUE
  /\ clock = 0
  /\ mods = 0
  /\ thumbDir = [f \in {} |-> None]
  /\ cacheFile = JAbsent
  /\ InitGenerator

Projects == {P \in SUBSET Files : Cardinality(P) = 2}

Init ==
  /\ \E P \in Projects : srcContent \in [P -> InitContents]
  /\ srcMtime = [f \in DOMAIN srcContent |-> 0]
  /\ cfgCache \in BOOLEAN
  /\ clock = 0
  /\ mods = 0
  /\ thumbDir = [f \in {} |-> None]
  /\ cacheFile = JAbsent
  /\ InitGenerator
  /\ InitOther

(***************************************************************************)
(* The environment, between builds: the user edits, touches, replaces or   *)
(* removes source files.  The generator of the build before is gone then.  *)
(* touched holds the sources modified since the entry the saved cache has  *)
(* for them was written.                                                   *)
(***************************************************************************)
Quiet == pc \in {"none", "done", "aborted"}

genVars == << otherVars, runs, cfgBlur, cfgCache, cache, source_paths, idx, successful,
              failed, counts, progress, processed, regenLog, lastCall, ioLog, cacheAtConstruct,
              saveCount, savedCache, prevRun, loadResult >>

\* write content c to f (the same content again is a touch): a newer mtime
ModifySource(f, c) ==
  /\ Quiet /\ mods < MaxMods
  /\ srcContent' = [srcContent EXCEPT ![f] = c]
  /\ srcMtime' = [srcMtime EXCEPT ![f] = clock + 1]
  /\ clock' = clock + 1
  /\ mods' = mods + 1
  /\ touched' = touched \cup {f}
  /\ pc' = "none"
  /\ UNCHANGED << thumbDir, cacheFile, genVars >>

\* replace the content of f and keep its mtime (a copy preserving timestamps)
ReplaceKeepingMtime(f, c) ==
  /\ Quiet /\ mods < MaxMods
  /\ srcContent[f] \notin {Absent, c}
  /\ srcContent' = [srcContent EXCEPT ![f] = c]
  /\ mods' = mods + 1
  /\ touched' = touched \cup {f}
  /\ pc' = "none"
  /\ UNCHANGED << srcMtime, clock, thumbDir, cacheFile, genVars >>

RemoveSource(f) ==
  /\ Quiet /\ mods < MaxMods
  /\ srcContent[f] # Absent
  /\ srcContent' = [srcContent EXCEPT ![f] = Absent]
  /\ mods' = mods + 1
  /\ touched' = touched \cup {f}
  /\ pc' = "none"
  /\ UNCHANGED << srcMtime, clock, thumbDir, cacheFile, genVars >>

(***************************************************************************)
(* ThumbnailGenerator.__init__: the configuration and load_cache.          *)
(***************************************************************************)
Construct(blur) ==
  /\ Quiet /\ runs < MaxRuns
  /\ LET r == load_cache(cacheFile, clock)
     IN  /\ loadResult' = r
         /\ cache' = r.cache
         /\ pc' = IF r.raised THEN "none" ELSE "idle"
  /\ runs' = runs + 1
  /\ cfgBlur' = blur
  /\ cacheAtConstruct' = cacheFile
  /\ saveCount' = 0
  /\ idx' = 0
  /\ successful' = << >>
  /\ failed' = << >>
  /\ counts' = [generated |-> 0, cached |-> 0]
  /\ progress' = << >>
  /\ processed' = << >>
  /\ regenLog' = NoRegenerations
  /\ lastCall' = NoCall
  /\ ioLog' = {}
  /\ UNCHANGED << otherVars, srcContent, srcMtime, clock, mods, thumbDir, cacheFile,
                  cfgCache, source_paths, savedCache, touched, prevRun >>

(***************************************************************************)
(* ThumbnailGenerator.generate_batch, one step per source path and one for *)
(* what follows the loop.                                                  *)
(***************************************************************************)
\* the lists of distinct source paths of the project, in any order
BatchLists ==
  { s \in UNION {[1..n -> DOMAIN srcContent] : n \in 1..MaxBatch} :
      \A i, j \in DOMAIN s : i # j => s[i] # s[j] }

\* a later build of the project processes the same list again
BatchStart(list) ==
  /\ pc = "idle"
  /\ source_paths = << >> \/ list = source_paths
  /\ pc' = "batch"
  /\ source_paths' = list
  /\ UNCHANGED << otherVars, srcContent, srcMtime, clock, mods, thumbDir, cacheFile, runs,
                  cfgBlur, cfgCache, cache, idx, successful, failed, counts,
                  progress, processed, regenLog, lastCall, ioLog, cacheAtConstruct, saveCount,
                  savedCache, touched, prevRun, loadResult >>

\* a loop that saves the cache after every item
CacheFileAfterItem_SaveEach(c) == model_dump([c EXCEPT !.last_updated = clock])

\* the cache file after one iteration of the loop: the loop does not write it
CacheFileAfterItem(c) == cacheFile

\* a loop that reports progress inside the try block, for a record only
ProgressAfterItem_OnSuccessOnly(kind) ==
  IF kind = "record"
  THEN Append(progress, << idx + 1, Len(source_paths) >>)
  ELSE progress

\* progress_callback(i, total), called after the try statement of each item
ProgressAfterItem(kind) == Append(progress, << idx + 1, Len(source_paths) >>)

\* the call of generate_thumbnail in the loop; should_regenerate, evaluated
\* before it, stats the file when the cache has an entry for it
BatchItem(source_path) ==
  IF cfgCache /\ source_path \in DOMAIN cache.entries
     /\ srcContent[source_path] = Absent
  THEN Outcome("stat", "FileNotFoundError", None, FALSE, thumbDir, cache, {})
  ELSE generate_thumbnail(source_path)

\* one iteration of the loop of generate_batch
BatchStep ==
  /\ pc = "batch" /\ idx < Len(source_paths)
  /\ \E source_path \in {source_paths[idx + 1]} :
     \E needs_regen \in
          {~cfgCache \/ should_regenerate(cache, source_path, srcMtime[source_path])} :
     \E out \in {BatchItem(source_path)} :
         /\ successful' = IF out.kind = "record"
                          THEN Append(successful, out.rec.v) ELSE successful
         /\ failed' = IF out.kind \in {"raise", "stat"}
                      THEN Append(failed, source_path) ELSE failed
         /\ counts' = IF out.kind # "record" THEN counts
                      ELSE IF needs_regen
                           THEN [counts EXCEPT !.generated = @ + 1]
                           ELSE [counts EXCEPT !.cached = @ + 1]
         /\ thumbDir' = out.dir
         /\ cache' = out.cache
         /\ ioLog' = ioLog \cup out.events
         /\ lastCall' = IF out.kind = "stat" THEN lastCall
                        ELSE [ path |-> source_path, kind |-> out.kind,
                               exc |-> out.exc, rec |-> out.rec,
                               cached |-> out.cached,
                               before |-> DOMAIN thumbDir,
                               after |-> DOMAIN out.dir,
                               check |-> CacheCheck(source_path) ]
         /\ cacheFile' = CacheFileAfterItem(out.cache)
         /\ progress' = ProgressAfterItem(out.kind)
         /\ regenLog' = IF out.kind = "record" /\ ~out.cached
                        THEN regenLog @@
                             (source_path :>
                                [ webp |-> out.rec.v.webp_path,
                                  jpeg |-> out.rec.v.jpeg_path,
                                  files |-> StemOutputs(out.dir, PathStem(source_path)) ])
                        ELSE regenLog
  /\ idx' = idx + 1
  /\ processed' = Append(processed, source_paths[idx + 1])
  /\ UNCHANGED << otherVars, srcContent, srcMtime, clock, mods, pc, runs, cfgBlur, cfgCache,
                  source_paths, cacheAtConstruct, saveCount, savedCache,
                  touched, prevRun, loadResult >>

\* save_cache: the cache as it is serialized, last_updated set to now
save_cache(c, now) == [c EXCEPT !.last_updated = now]

\* the sources whose entry update_entry has written since the cache was loaded
UpdatedEntries ==
  { f \in DOMAIN cache.entries :
      \/ f \notin DOMAIN loadResult.cache.entries
      \/ cache.entries[f] # loadResult.cache.entries[f] }

\* the sources whose thumbnail this batch has generated: the two files were
\* written and the call returned a record
GeneratedInRun ==
  { successful[i].source_path : i \in 1..Len(successful) }
    \cap { e.by : e \in {x \in ioLog : x.op = "write"} }

\* after the loop: save the cache when caching is enabled, and return
BatchFinish ==
  /\ pc = "batch" /\ idx = Len(source_paths)
  /\ IF cfgCache
     THEN /\ cache' = save_cache(cache, clock)
          /\ cacheFile' = model_dump(cache')
          /\ savedCache' = cache'
          /\ saveCount' = saveCount + 1
          /\ touched' = touched \ UpdatedEntries
     ELSE UNCHANGED << cache, cacheFile, savedCache, saveCount, touched >>
  /\ pc' = "done"
  /\ prevRun' = [ done |-> TRUE, paths |-> source_paths, blur |-> cfgBlur,
                  cacheOn |-> cfgCache,
                  ok |-> {successful[i].source_path : i \in 1..Len(successful)},
                  mods |-> mods, aborted |-> FALSE, generated |-> GeneratedInRun,
                  cacheFile |-> cacheAtConstruct, regen |-> regenLog ]
  /\ UNCHANGED << otherVars, srcContent, srcMtime, clock, mods, thumbDir, runs, cfgBlur,
                  cfgCache, source_paths, idx, successful, failed, counts,
                  progress, processed, regenLog, lastCall, ioLog, cacheAtConstruct,
                  loadResult >>

\* the process is terminated during the loop: nothing after it runs
Abort ==
  /\ pc = "batch" /\ idx < Len(source_paths)
  /\ pc' = "aborted"
  /\ prevRun' = [ done |-> FALSE, paths |-> source_paths, blur |-> cfgBlur,
                  cacheOn |-> cfgCache,
                  ok |-> {successful[i].source_path : i \in 1..Len(successful)},
                  mods |-> mods, aborted |-> TRUE, generated |-> GeneratedInRun,
                  cacheFile |-> cacheAtConstruct, regen |-> regenLog ]
  /\ UNCHANGED << otherVars, srcContent, srcMtime, clock, mods, thumbDir, cacheFile, runs,
                  cfgBlur, cfgCache, cache, source_paths, idx, successful, failed,
                  counts, progress, processed, regenLog, lastCall, ioLog, cacheAtConstruct, saveCount,
                  savedCache, touched, loadResult >>

Next ==
  \/ \E f \in DOMAIN srcContent, c \in Contents : ModifySource(f, c)
  \/ \E f \in DOMAIN srcContent, c \in Contents : ReplaceKeepingMtime(f, c)
  \/ \E f \in DOMAIN srcContent : RemoveSource(f)
  \/ \E blur \in BOOLEAN : Construct(blur)
  \/ \E list \in BatchLists : BatchStart(list)
  \/ BatchStep
  \/ BatchFinish
  \/ Abort

Spec == Init /\ [][Next]_vars

(***************************************************************************)
(* SpecLoad: load_cache on the cache files a generator may find.  The      *)
(* documents cover a text that is no JSON, JSON that is no object, and     *)
(* objects with any version tag, with entries that are complete, lack a    *)
(* required field, have a field of the wrong type, have a field pydantic   *)
(* coerces, or come from an older build (no sizes).                        *)
(***************************************************************************)
Without(o, k) == [x \in DOMAIN o \ {k} |-> o[x]]

With(o, k, v) == [x \in DOMAIN o \cup {k} |-> IF x = k THEN v ELSE o[x]]

\* an entry as update_entry and save_cache write it
SampleEntry(source_path) ==
  DumpEntry(
    [ source_path |-> source_path,
      source_mtime |-> 0,
      webp_path |-> JoinPath(OutputDir, PathStem(source_path) \o "-d7bdd545.webp"),
      jpeg_path |-> JoinPath(OutputDir, PathStem(source_path) \o "-d7bdd545.jpg"),
      content_hash |-> "d7bdd545",
      thumbnail_generated_at |-> 0,
      metadata_stripped |-> TRUE,
      width |-> 800,
      height |-> 600,
      webp_size_bytes |-> 9601,
      jpeg_size_bytes |-> 16001,
      source_size_bytes |-> 5000,
      blur_placeholder_hash |-> None,
      blur_placeholder_generated_at |-> None ])

EntryVariants(source_path) ==
  LET good == SampleEntry(source_path)
  IN  { good,
        JObj(Without(good.o, "content_hash")),
        JObj(With(good.o, "width", JStr("wide"))),
        JObj(With(good.o, "width", JStr("3"))),
        JObj(Without(Without(good.o, "width"), "height")),
        JNull }

EntryTables ==
  UNION { {JObj(o) : o \in {g \in [P -> UNION {EntryVariants(q) : q \in P}] :
                             \A q \in P : g[q] \in EntryVariants(q)}} :
          P \in SUBSET {"a.jpg", "a-b.jpg"} }

VersionTags == {JStr(CACHE_VERSION), JStr("0.9"), JNum(1), JNull}

TimeStamps == {JStr(IsoFormat(0)), JStr("yesterday")}

\* the objects with the keys K among entries, cache_version, last_updated
ObjectsWith(K) ==
  { JObj([k \in K |-> IF k = "entries" THEN e
                      ELSE IF k = "cache_version" THEN v ELSE t]) :
      e \in EntryTables \cup {JList}, v \in VersionTags, t \in TimeStamps }

CacheDocs ==
  {JInvalid, JList, JStr("cache"), JNum(1), JNull}
  \cup UNION {ObjectsWith(K) : K \in SUBSET {"entries", "cache_version", "last_updated"}}

InitLoad ==
  /\ srcContent = [f \in {"a.jpg", "a-b.jpg"} |-> "img1"]
  /\ srcMtime = [f \in DOMAIN srcContent |-> 0]
  /\ cfgCache = TRUE
  /\ clock = 0
  /\ mods = 0
  /\ thumbDir = [f \in {} |-> None]
  /\ cacheFile \in CacheDocs
  /\ InitGenerator
  /\ InitOther

NextLoad == \E blur \in BOOLEAN : Construct(blur)

SpecLoad == InitLoad /\ [][NextLoad]_vars

(***************************************************************************)
(* metadata_filter.py.  An EXIF dict as piexif.load returns it: the tags   *)
(* of each IFD (a tag is named by its piexif constant) and whether a       *)
(* thumbnail is embedded.                                                  *)
(***************************************************************************)
SENSITIVE_EXIF_TAGS == {"BodySerialNumber", "LensSerialNumber", "ImageUniqueID"}

SENSITIVE_0TH_TAGS ==
  { "Artist", "Copyright", "Software", "HostComputer", "XPAuthor", "XPComment",
    "JPEGInterchangeFormat", "JPEGInterchangeFormatLength" }

SAFE_0TH_TAGS ==
  { "Orientation", "Make", "Model", "DateTime", "XResolution", "YResolution",
    "ResolutionUnit" }

SAFE_EXIF_TAGS ==
  { "DateTimeOriginal", "DateTimeDigitized", "LensModel", "LensMake", "FNumber",
    "ExposureTime", "ISOSpeedRatings", "FocalLength", "ColorSpace" }

\* _remove_sensitive_tags: the Exif and the 0th IFD keep their safe tags
_remove_sensitive_tags(exif_dict) ==
  [ exif_dict EXCEPT
      !.ifd = [ g \in DOMAIN exif_dict.ifd |->
                  IF g = "Exif" THEN exif_dict.ifd[g] \cap SAFE_EXIF_TAGS
                  ELSE IF g = "0th" THEN exif_dict.ifd[g] \cap SAFE_0TH_TAGS
                  ELSE exif_dict.ifd[g] ] ]

\* filter_metadata: the dict it hands to piexif.dump
filter_metadata(loaded) ==
  LET popped == [loaded EXCEPT !.ifd = [g \in DOMAIN loaded.ifd \ {"GPS"} |-> loaded.ifd[g]]]
  IN  [_remove_sensitive_tags(popped) EXCEPT !.thumbnail = FALSE]

\* the EXIF dicts of the source images: per IFD a safe, a sensitive and
\* another tag where the IFD has such
ExifDicts ==
  LET tags == [ zeroth : SUBSET {"Orientation", "Artist", "ImageDescription"},
                exif : SUBSET {"DateTimeOriginal", "BodySerialNumber", "UserComment"},
                gps : SUBSET {"GPSLatitude"},
                interop : SUBSET {"InteroperabilityIndex"},
                first : SUBSET {"JPEGInterchangeFormat", "Compression"} ]
  IN  { [ ifd |-> [ g \in G |->
                      CASE g = "0th" -> r.zeroth
                        [] g = "Exif" -> r.exif
                        [] g = "GPS" -> r.gps
                        [] g = "Interop" -> r.interop
                        [] g = "1st" -> r.first ],
          thumbnail |-> t ] :
          G \in SUBSET {"0th", "Exif", "GPS", "Interop", "1st"},
          r \in tags, t \in BOOLEAN }

(***************************************************************************)
(* SpecCalls: calls of single functions.  probe holds the name of the      *)
(* function and its arguments from the initial state on; the call stores   *)
(* the result.                                                             *)
(***************************************************************************)
MaxList == 2

NoDuplicates(q) == Cardinality({q[i] : i \in 1..Len(q)}) = Len(q)

ListsOf(S, n) == UNION { [1..k -> S] : k \in 0..n }

\* model.Category: a name of at least one character, an order_index, images
Category(name, order_index, images) ==
  [name |-> name, order_index |-> order_index, images |-> images]

\* category_map = {cat.name: cat for cat in categories}: the position of the
\* category a name is mapped to (a later category of the same name replaces
\* an earlier one), 0 for a name that is not declared
category_map(category_names, name) ==
  IF \E i \in 1..Len(category_names) : category_names[i] = name
    THEN CHOOSE i \in 1..Len(category_names) :
           /\ category_names[i] = name
           /\ \A j \in (i + 1)..Len(category_names) : category_names[j] # name
    ELSE 0

\* build_html.organize_by_category: the list returned, or the
\* ValidationError of Category(name="")
organize_by_category(category_names, images) ==
  IF \E i \in 1..Len(category_names) : category_names[i] = ""
    THEN [raised |-> TRUE, exc |-> "ValidationError", value |-> << >>]
  ELSE
    LET categories ==
          [ i \in 1..Len(category_names) |->
              Category(category_names[i], i - 1,
                       SelectSeq(images,
                                 LAMBDA image :
                                   category_map(category_names, image.category) = i)) ]
    IN  [raised |-> FALSE, exc |-> "",
         value |-> SelectSeq(categories, LAMBDA cat : Len(cat.images) > 0)]

\* the category names a gallery YAML declares and the images of a scan
CategoryNames == {"", "land", "uncat"}

Images == [filename : {"a.jpg", "b.jpg"}, category : {"land", "uncat", "misc"}]

\* the byte strings hashed
HashInputs == DOMAIN Sha256Hex

\* the ThumbnailImage _build_thumbnail_result makes of a source with the
\* given content, with a blur placeholder or without
ThumbnailOf(source_path, content, blur, now) ==
  LET info == ImageTable[content]
      d == calculate_thumbnail_dimensions(info.w, info.h, DEFAULT_THUMBNAIL_MAX_DIMENSION)
      thumb == PilThumbnailSize(info.w, info.h, d[1], d[2])
      stem == PathStem(source_path)
  IN  [ source_filename |-> PathName(source_path),
        source_path |-> source_path,
        webp_path |-> JoinPath(OutputDir, stem \o "-" \o hash_bytes(content) \o ".webp"),
        jpeg_path |-> JoinPath(OutputDir, stem \o "-" \o hash_bytes(content) \o ".jpg"),
        width |-> thumb.w,
        height |-> thumb.h,
        webp_size_bytes |-> WebpSize(thumb.w, thumb.h),
        jpeg_size_bytes |-> JpegSize(thumb.w, thumb.h),
        source_size_bytes |-> info.size,
        content_hash |-> hash_bytes(content),
        generated_at |-> now,
        metadata_stripped |-> info.exif,
        metadata_strip_warning |-> None,
        blur_placeholder |->
          IF blur THEN generate_blur_placeholder(content, now) ELSE None ]

\* the entries a cache holds before update_entry: without and with the blur
\* placeholder fields
StoredEntries(source_path) ==
  { ParseEntry(SampleEntry(source_path)),
    [ ParseEntry(SampleEntry(source_path)) EXCEPT
        !.blur_placeholder_hash = Some("d7bdd545"),
        !.blur_placeholder_generated_at = Some(0) ] }

CachesBeforeUpdate ==
  UNION { { [BuildCache(0) EXCEPT !.entries = t] :
              t \in { g \in [P -> UNION {StoredEntries(q) : q \in P}] :
                        \A q \in P : g[q] \in StoredEntries(q) } } :
          P \in SUBSET {"a.jpg", "a-b.jpg"} }

MaxMtime == 2

MaxDim == 20

Probes(op, Args) ==
  { [op |-> op, args |-> a, done |-> FALSE, result |-> << >>, pre |-> << >>] :
      a \in Args }

Return(op, result) ==
  /\ probe.op = op /\ ~probe.done
  /\ probe' = [probe EXCEPT !.done = TRUE, !.result = result]
  /\ UNCHANGED << thumbVars, destDir, yamlFile >>

Called(op) == probe.op = op /\ probe.done

\* a cache whose entries have the stored mtimes  stored  (path -> mtime)
CacheWithMtimes(stored) ==
  [ BuildCache(0) EXCEPT
      !.entries = [ p \in DOMAIN stored |->
                      [ParseEntry(SampleEntry(p)) EXCEPT !.source_mtime = stored[p]] ] ]

\* should_regenerate(source_path) of a cache with entries for some of the
\* sources, for any stored and any current mtime
Call_should_regenerate ==
  Return("should_regenerate",
         should_regenerate(CacheWithMtimes(probe.args[1]), probe.args[2], probe.args[3]))

Call_filter_metadata == Return("filter_metadata", filter_metadata(probe.args[1]))

Call_calculate_thumbnail_dimensions ==
  Return("calculate_thumbnail_dimensions",
         calculate_thumbnail_dimensions(probe.args[1], probe.args[2], probe.args[3]))

(***************************************************************************)
(* thumbnails.py: _optimize_data_url_size.  The image is the placeholder   *)
(* after its resize; the JPEG encoder is a size that grows with the        *)
(* quality, the data URL is the prefix and the base64 text of the bytes.   *)
(***************************************************************************)
JPEG_QUALITY_MIN == 1
JPEG_QUALITY_MAX == 100
MAX_SIZE_BYTES_MIN == 100
MAX_SIZE_BYTES_MAX == 2000
QUALITY_FLOOR == 10
QUALITY_STEP == 10

\* img.save(buffer, format="JPEG", quality=quality): the number of bytes
JpegBytes(img, quality) == 160 + (img[1] * img[2] * quality) \div 40

\* len(f"data:image/jpeg;base64,{b64_data}") for n encoded bytes
DataUrlLen(n) == 23 + 4 * ((n + 2) \div 3)

\* the while loop from  quality  on;  tried  holds the qualities encoded so
\* far, the last of them is what data_url is bound to
RECURSIVE OptimizeLoop(_, _, _, _)
OptimizeLoop(img, max_size_bytes, quality, tried) ==
  IF quality >= QUALITY_FLOOR
  THEN IF DataUrlLen(JpegBytes(img, quality)) <= max_size_bytes
       THEN [ kind |-> "return", exc |-> "", tried |-> Append(tried, quality),
              quality |-> quality,
              size |-> DataUrlLen(JpegBytes(img, quality)) ]
       ELSE OptimizeLoop(img, max_size_bytes, quality - QUALITY_STEP,
                         Append(tried, quality))
  ELSE IF tried = << >>
       THEN [ kind |-> "raise", exc |-> "UnboundLocalError", tried |-> tried,
              quality |-> 0, size |-> 0 ]
       ELSE [ kind |-> "return", exc |-> "", tried |-> tried,
              quality |-> tried[Len(tried)],
              size |-> DataUrlLen(JpegBytes(img, tried[Len(tried)])) ]

_optimize_data_url_size(img, max_size_bytes, initial_quality) ==
  OptimizeLoop(img, max_size_bytes, initial_quality, << >>)

\* placeholders after img.thumbnail((20, 20)), and byte budgets of the
\* configuration's range
PlaceholderSizes == { << 20, 15 >>, << 20, 20 >> }
ByteBudgets == { MAX_SIZE_BYTES_MIN, 600, 1000, MAX_SIZE_BYTES_MAX }

Call_optimize_data_url_size ==
  Return("_optimize_data_url_size",
         _optimize_data_url_size(probe.args[1], probe.args[2], probe.args[3]))

InitCalls ==
  /\ InitNoThumbs
  /\ destDir = NoFiles
  /\ yamlFile = JAbsent
  /\ \/ probe \in Probes("should_regenerate",
                         (UNION { [P -> 0..MaxMtime] : P \in SUBSET Files })
                           \X Files \X (0..MaxMtime))
     \/ probe \in Probes("calculate_thumbnail_dimensions",
                         (1..MaxDim) \X (1..MaxDim) \X (1..MaxDim))
     \/ probe \in Probes("filter_metadata", {<< d >> : d \in ExifDicts})
     \/ probe \in Probes("hash_bytes", {<< data >> : data \in HashInputs})
     \/ probe \in Probes("_optimize_data_url_size",
                         PlaceholderSizes \X ByteBudgets
                           \X (JPEG_QUALITY_MIN..JPEG_QUALITY_MAX))
     \/ probe \in Probes("hash_file",
                         (UNION { [P -> HashInputs \cup {Absent}] :
                                    P \in SUBSET {"a.jpg"} }) \X {"a.jpg"})
     \/ probe \in Probes("update_entry",
                         { << c, source_path, current_mtime,
                              ThumbnailOf(source_path, content, blur, now), now >> :
                             c \in CachesBeforeUpdate,
                             source_path \in {"a.jpg", "a-b.jpg"},
                             current_mtime \in 0..MaxMtime,
                             content \in {"img1", "img2"},
                             blur \in BOOLEAN,
                             now \in 0..1 })
     \/ probe \in Probes("organize_by_category",
                         ListsOf(CategoryNames, MaxList) \X ListsOf(Images, MaxList))

Call_hash_bytes == Return("hash_bytes", hash_bytes(probe.args[1]))

Call_hash_file == Return("hash_file", HashFile(probe.args[1], probe.args[2]))

Call_update_entry ==
  Return("update_entry",
         update_entry(probe.args[1], probe.args[2], probe.args[3], probe.args[4],
                      probe.args[5]))

Call_organize_by_category ==
  Return("organize_by_category", organize_by_category(probe.args[1], probe.args[2]))

NextCalls ==
  \/ Call_should_regenerate
  \/ Call_calculate_thumbnail_dimensions
  \/ Call_filter_metadata
  \/ Call_organize_by_category
  \/ Call_hash_bytes
  \/ Call_hash_file
  \/ Call_update_entry
  \/ Call_optimize_data_url_size

SpecCalls == InitCalls /\ [][NextCalls]_vars

(***************************************************************************)
(* assets.py and SpecAssets: write_with_hash on the site output directory, *)
(* for base names that share a prefix up to a dot or differ in it.         *)
(***************************************************************************)
\* utils.hash_content: the digest of the UTF-8 bytes of the text
hash_content(content) == SubSeq(Sha256Hex[content], 1, CONTENT_HASH_LENGTH)

get_hashed_filename(filename, content) ==
  PathStem(filename) \o "." \o hash_content(content) \o PathSuffix(filename)

\* _remove_old_hashed_files: the files it unlinks
_remove_old_hashed_files(dir, base_filename, keep_file) ==
  LET stem == PathStem(base_filename)
      ext == PathSuffix(base_filename)
  IN  { f \in DOMAIN dir :
          /\ GlobMatch(f, stem \o ".", ext)
          /\ f # keep_file
          /\ StartsWith(PathStem(f), stem \o ".")
          /\ PathSuffix(f) = ext }

AssetNames == {"app.css", "app.min.css", "site.js"}

AssetContents == {"css1", "css2"}

write_with_hash(content, filename) ==
  /\ \E dest_path \in {get_hashed_filename(filename, content)} :
     \E written \in {[f \in DOMAIN destDir \cup {dest_path} |->
                        IF f = dest_path THEN content ELSE destDir[f]]} :
     \E old \in {_remove_old_hashed_files(written, filename, dest_path)} :
       /\ destDir' = [f \in DOMAIN written \ old |-> written[f]]
       /\ probe' = [ op |-> "write_with_hash", args |-> << content, filename >>,
                     done |-> TRUE, result |-> dest_path, pre |-> destDir ]
  /\ UNCHANGED << thumbVars, yamlFile >>

\* files of the user's own that the destination directory may hold
UserFiles == {"app.min.css", "notes.txt"}

InitAssets ==
  /\ InitNoThumbs
  /\ probe = NoProbe
  /\ yamlFile = JAbsent
  /\ \E S \in SUBSET UserFiles : destDir = [f \in S |-> "user"]

NextAssets == \E content \in AssetContents, filename \in AssetNames :
                write_with_hash(content, filename)

SpecAssets == InitAssets /\ [][NextAssets]_vars

(***************************************************************************)
(* yaml_sync.py and SpecYaml: the gallery YAML file, read and written by   *)
(* load_gallery_yaml, save_gallery_yaml and append_stub_entries.  The file *)
(* is absent, empty (null), or a mapping with the lists categories and     *)
(* images; an image is a mapping with some of the keys of YamlEntry.       *)
(***************************************************************************)
YNull == [t |-> "null"]

YMap(categories, images) == [t |-> "map", categories |-> categories, images |-> images]

\* YamlEntry: filename and category are required and not empty, title and
\* description default to ""
YamlEntry(filename, category, title, description) ==
  [filename |-> filename, category |-> category,
   title |-> title, description |-> description]

YamlEntryValid(img_data) ==
  /\ "filename" \in DOMAIN img_data /\ img_data.filename # ""
  /\ "category" \in DOMAIN img_data /\ img_data.category # ""

model_validate(img_data) ==
  YamlEntry(img_data.filename, img_data.category,
            IF "title" \in DOMAIN img_data THEN img_data.title ELSE "",
            IF "description" \in DOMAIN img_data THEN img_data.description ELSE "")

YRaise(exc) == [raised |-> TRUE, exc |-> exc, value |-> << >>]

YReturn(value) == [raised |-> FALSE, exc |-> "", value |-> value]

\* the exception the loop of load_gallery_yaml raises at the i-th image, ""
\* for none: a missing or repeated filename is a ValueError, a mapping
\* YamlEntry rejects a pydantic ValidationError
EntryError(images_data, i) ==
  IF "filename" \notin DOMAIN images_data[i] \/ images_data[i].filename = ""
    THEN "ValueError"
  ELSE IF \E j \in 1..(i - 1) :
            /\ "filename" \in DOMAIN images_data[j]
            /\ images_data[j].filename = images_data[i].filename
    THEN "ValueError"
  ELSE IF ~YamlEntryValid(images_data[i]) THEN "ValidationError"
  ELSE ""

\* pydantic's ValidationError is a subclass of ValueError
IsValueError(exc) == exc \in {"ValueError", "ValidationError"}

\* load_gallery_yaml: << categories, entries >> or the exception raised
load_gallery_yaml(file) ==
  IF file = JAbsent THEN YRaise("FileNotFoundError")
  ELSE IF file = YNull THEN YReturn(<< << >>, << >> >>)
  ELSE IF ~NoDuplicates(file.categories) THEN YRaise("ValueError")
  ELSE IF \E i \in 1..Len(file.images) : EntryError(file.images, i) # ""
       THEN YRaise(EntryError(file.images,
                              CHOOSE i \in 1..Len(file.images) :
                                /\ EntryError(file.images, i) # ""
                                /\ \A j \in 1..(i - 1) : EntryError(file.images, j) = ""))
  ELSE YReturn(<< file.categories,
                  [i \in 1..Len(file.images) |-> model_validate(file.images[i])] >>)

\* save_gallery_yaml that writes the file and validates afterwards
save_gallery_yaml_WriteFirst(file, categories, entries) ==
  IF ~NoDuplicates(categories)
       \/ ~NoDuplicates([i \in 1..Len(entries) |-> entries[i].filename])
    THEN [raised |-> TRUE, exc |-> "ValueError", file |-> YMap(categories, entries)]
  ELSE [raised |-> FALSE, exc |-> "", file |-> YMap(categories, entries)]

\* save_gallery_yaml: the exception raised and the file afterwards
save_gallery_yaml(file, categories, entries) ==
  IF ~NoDuplicates(categories) THEN [raised |-> TRUE, exc |-> "ValueError", file |-> file]
  ELSE IF ~NoDuplicates([i \in 1..Len(entries) |-> entries[i].filename])
       THEN [raised |-> TRUE, exc |-> "ValueError", file |-> file]
  ELSE [raised |-> FALSE, exc |-> "", file |-> YMap(categories, entries)]

\* the given filenames that have no entry, in the given order
StubsToAdd(existing_entries, new_filenames) ==
  SelectSeq(new_filenames,
            LAMBDA f : \A i \in 1..Len(existing_entries) : existing_entries[i].filename # f)

\* append_stub_entries: the value returned or the exception raised, and the
\* file afterwards
append_stub_entries(file, new_filenames, default_category) ==
  IF default_category = ""
    THEN [raised |-> TRUE, exc |-> "ValueError", value |-> 0, file |-> file]
  ELSE
    LET loaded == load_gallery_yaml(file) IN
    IF loaded.raised
      THEN [raised |-> TRUE, exc |-> loaded.exc, value |-> 0, file |-> file]
    ELSE
      LET categories == IF \E i \in 1..Len(loaded.value[1]) :
                              loaded.value[1][i] = default_category
                          THEN loaded.value[1]
                          ELSE Append(loaded.value[1], default_category)
          existing_entries == loaded.value[2]
          stubs_to_add == StubsToAdd(existing_entries, new_filenames)
          new_entries == [i \in 1..Len(stubs_to_add) |->
                            YamlEntry(stubs_to_add[i], default_category, "", "")]
          saved == save_gallery_yaml(file, categories, existing_entries \o new_entries)
      IN  IF stubs_to_add = << >>
            THEN [raised |-> FALSE, exc |-> "", value |-> 0, file |-> file]
          ELSE IF saved.raised
            THEN [raised |-> TRUE, exc |-> saved.exc, value |-> 0, file |-> file]
          ELSE [raised |-> FALSE, exc |-> "", value |-> Len(stubs_to_add),
                file |-> saved.file]

YamlFilenames == {"a.jpg", "b.jpg"}

NewFilenames == {"a.jpg", "c.jpg"}

YamlCategories == {"land", "uncat"}

DefaultCategories == {"", "uncat", "misc"}

\* the image mappings of a hand-written or a saved file
YamlImages ==
  { [filename |-> "a.jpg"],
    [filename |-> "b.jpg", category |-> "land", title |-> "T", description |-> ""] }
    \cup [filename : YamlFilenames, category : YamlCategories]

YamlFiles ==
  {JAbsent, YNull}
    \cup { YMap(c, i) : c \in ListsOf(YamlCategories, MaxList),
                        i \in ListsOf(YamlImages, MaxList) }

\* the YamlEntry objects handed to save_gallery_yaml
YamlEntries ==
  { YamlEntry("a.jpg", "land", "", ""), YamlEntry("b.jpg", "land", "T", "") }

YamlCall(op, args, out) ==
  /\ yamlFile' = out.file
  /\ probe' = [ op |-> op, args |-> args, done |-> TRUE,
                result |-> [raised |-> out.raised, exc |-> out.exc, value |-> out.value],
                pre |-> yamlFile ]
  /\ UNCHANGED << thumbVars, destDir >>

Call_load_gallery_yaml ==
  \E loaded \in {load_gallery_yaml(yamlFile)} :
    YamlCall("load_gallery_yaml", << >>,
             [raised |-> loaded.raised, exc |-> loaded.exc,
              value |-> loaded.value, file |-> yamlFile])

Call_save_gallery_yaml ==
  \E categories \in ListsOf(YamlCategories, MaxList) :
  \E entries \in ListsOf(YamlEntries, MaxList) :
  \E saved \in {save_gallery_yaml(yamlFile, categories, entries)} :
    YamlCall("save_gallery_yaml", << categories, entries >>,
             [raised |-> saved.raised, exc |-> saved.exc,
              value |-> << >>, file |-> saved.file])

Call_append_stub_entries ==
  \E new_filenames \in ListsOf(NewFilenames, MaxList) :
  \E default_category \in DefaultCategories :
  \E out \in {append_stub_entries(yamlFile, new_filenames, default_category)} :
    YamlCall("append_stub_entries", << new_filenames, default_category >>, out)

InitYaml ==
  /\ InitNoThumbs
  /\ probe = NoProbe
  /\ destDir = NoFiles
  /\ yamlFile \in YamlFiles

NextYaml ==
  \/ Call_load_gallery_yaml
  \/ Call_save_gallery_yaml
  \/ Call_append_stub_entries

SpecYaml == InitYaml /\ [][NextYaml]_vars

(***************************************************************************)
(* Properties.                                                             *)
(***************************************************************************)
Range(q) == {q[i] : i \in 1..Len(q)}

Running == pc \in {"batch", "done"}

\* every path of the batch has been processed (the loop has ended)
AllProcessed == Running /\ idx = Len(source_paths) /\ Len(source_paths) > 0

SuccessfulPaths == {successful[i].source_path : i \in 1..Len(successful)}

Undecodable(f) == srcContent[f] # Absent /\ ~ImageTable[srcContent[f]].decodable

\* an image every stage of the pipeline accepts
PlainImage(f) == srcContent[f] \in {"img1", "img2"}

\* C1: a batch over existing paths of which exactly one is no decodable image
\* and the others are valid images returns, without raising, all the valid
\* images as successful and exactly the undecodable path as failed.
C1_OneGarbageIsTheOneFailed ==
  ( /\ pc = "done"
    /\ Cardinality({f \in Range(source_paths) : Undecodable(f)}) = 1
    /\ \A f \in Range(source_paths) : Undecodable(f) \/ PlainImage(f) )
  => /\ Len(successful) = Len(source_paths) - 1
     /\ Len(failed) = 1
     /\ Undecodable(failed[1])

\* C2: a second batch by a new generator with the same configuration over the
\* same unchanged sources, after a batch that completed and flushed the cache,
\* regenerates nothing: all images come from the cache, none fails, and no
\* thumbnail file is written or deleted.
C2_SecondRunOnlyCacheHits ==
  ( /\ pc = "batch" /\ AllProcessed
    /\ prevRun.done /\ prevRun.cacheOn /\ cfgCache
    /\ prevRun.blur = cfgBlur
    /\ prevRun.mods = mods
    /\ prevRun.paths = source_paths
    /\ prevRun.ok = Range(source_paths) )
  => /\ failed = << >>
     /\ SuccessfulPaths = Range(source_paths)
     /\ counts.generated = 0
     /\ counts.cached = Len(source_paths)
     /\ ioLog = {}

\* C3: generating the thumbnail of a source never deletes or overwrites an
\* output file that belongs to another source of the same batch.
C3_NoEventOnAnotherSourcesFile ==
  Running =>
    \A e \in ioLog :
      e.prev \in Range(source_paths) => e.prev = e.by

\* the files of a directory listing named  stem-<8 hex characters><ext>
ThumbsOf(names, stem, ext) ==
  { f \in names :
      LET n == PathName(f)
      IN  /\ Len(n) = Len(stem) + 1 + CONTENT_HASH_LENGTH + Len(ext)
          /\ StartsWith(n, stem \o "-")
          /\ EndsWith(n, ext)
          /\ IsLowerHex(SubSeq(n, Len(stem) + 2, Len(stem) + 1 + CONTENT_HASH_LENGTH)) }

\* the latest call regenerated a thumbnail whose source had outputs of an
\* earlier content hash
RegeneratedChanged ==
  /\ Running
  /\ lastCall.kind = "record" /\ ~lastCall.cached
  /\ \E f \in ThumbsOf(lastCall.before, PathStem(lastCall.path), ".webp")
            \cup ThumbsOf(lastCall.before, PathStem(lastCall.path), ".jpg") :
        ~Contains(PathName(f), lastCall.rec.v.content_hash)

\* C4: when generate_thumbnail regenerates the thumbnail of a source whose
\* content hash changed, the files of the previous hash are removed, and the
\* directory then holds exactly one .webp and one .jpg for the stem, named
\* with the new hash.
C4_StaleOutputsRemoved ==
  RegeneratedChanged =>
    LET stem == PathStem(lastCall.path)
        h == lastCall.rec.v.content_hash
    IN  /\ ThumbsOf(lastCall.after, stem, ".webp")
             = {JoinPath(OutputDir, stem \o "-" \o h \o ".webp")}
        /\ ThumbsOf(lastCall.after, stem, ".jpg")
             = {JoinPath(OutputDir, stem \o "-" \o h \o ".jpg")}

C4_Witness ==
  /\ RegeneratedChanged
  /\ Cardinality(lastCall.before \ lastCall.after) = 2

\* C5: with caching enabled the cache file is written exactly once, after the
\* last path was processed; until then, and after an abort, the file is what
\* it was when the generator was constructed.
C5_CacheFileWrittenOnceAtEnd ==
  /\ pc \in {"idle", "batch", "aborted"} =>
       cacheFile = cacheAtConstruct /\ saveCount = 0
  /\ pc = "done" => saveCount = IF cfgCache THEN 1 ELSE 0
  /\ (pc = "done" /\ cfgCache) => cacheFile = model_dump(cache)

\* a batch that has updated entries in memory which the file does not hold
C5_Witness ==
  /\ pc = "batch" /\ cfgCache /\ idx >= 1 /\ idx < Len(source_paths)
  /\ cache.entries # loadResult.cache.entries
  /\ cacheFile = cacheAtConstruct

\* a generator that has just loaded a cache file written by save_cache
LoadedSavedCache == pc = "idle" /\ cacheAtConstruct # JAbsent

\* C6: after update_entry, save_cache and load_cache the reloaded entries equal
\* the saved ones, and should_regenerate is False for every source left
\* untouched since its entry was updated.
C6_CacheRoundTrip ==
  LoadedSavedCache =>
    /\ ~loadResult.raised
    /\ cache.entries = savedCache.entries
    /\ cache.cache_version = savedCache.cache_version
    /\ cache.last_updated = savedCache.last_updated
    /\ \A f \in DOMAIN savedCache.entries :
         (f \notin touched /\ srcContent[f] # Absent) =>
           ~should_regenerate(cache, f, srcMtime[f])

C6_Witness ==
  /\ LoadedSavedCache
  /\ \E f \in DOMAIN cache.entries :
       /\ f \notin touched
       /\ cache.entries[f].blur_placeholder_hash.some
       /\ ~should_regenerate(cache, f, srcMtime[f])

\* the cache file the generator found is an object whose version tag is not
\* the current one (or is missing)
VersionMismatch ==
  /\ runs >= 1
  /\ cacheAtConstruct.t = "obj"
  /\ \/ ~Has(cacheAtConstruct.o, "cache_version")
     \/ cacheAtConstruct.o["cache_version"] # JStr(CACHE_VERSION)

\* C7: load_cache on a file whose cache_version is not CACHE_VERSION returns a
\* cache with no entries, whatever entries the file holds.
C7_VersionMismatchGivesEmptyCache ==
  VersionMismatch =>
    /\ ~loadResult.raised
    /\ loadResult.cache.entries = NoEntries
    /\ cache.entries = NoEntries

\* a file of another version whose entries would all validate
C7_Witness ==
  /\ VersionMismatch
  /\ Has(cacheAtConstruct.o, "cache_version")
  /\ Has(cacheAtConstruct.o, "entries")
  /\ cacheAtConstruct.o["entries"].t = "obj"
  /\ DOMAIN cacheAtConstruct.o["entries"].o # {}
  /\ BuildCacheOk(cacheAtConstruct.o)
  /\ loadResult.cache.entries = NoEntries

\* the table a cache file stores, when all of the file validates
StoredTable(doc) ==
  [p \in DOMAIN doc.o["entries"].o |-> ParseEntry(doc.o["entries"].o[p])]

Unusable(doc) ==
  \/ doc.t # "obj"
  \/ ~Has(doc.o, "cache_version")
  \/ doc.o["cache_version"] # JStr(CACHE_VERSION)
  \/ ~BuildCacheOk(doc.o)

\* C8: load_cache never raises on a file that exists but cannot be parsed or
\* validated; it then returns an empty cache, and in every case its result is
\* the complete stored table or an empty table.
C8_LoadCacheNeverRaises ==
  (runs >= 1 /\ cacheAtConstruct # JAbsent) =>
    /\ ~loadResult.raised
    /\ Unusable(cacheAtConstruct) => loadResult.cache.entries = NoEntries
    /\ \/ loadResult.cache.entries = NoEntries
       \/ /\ ~Unusable(cacheAtConstruct)
          /\ Has(cacheAtConstruct.o, "entries")
          /\ loadResult.cache.entries = StoredTable(cacheAtConstruct)

\* C9: generate_thumbnail raises only when the source path does not exist;
\* for an existing file it returns a record or None.
C9_RaisesOnlyForMissingSource ==
  (Running /\ lastCall.kind = "raise") =>
    /\ srcContent[lastCall.path] = Absent
    /\ lastCall.exc = "FileNotFoundError"

\* C10: every record generate_thumbnail returns, fresh or from the cache, has
\* positive width and height, a content hash of 8 lowercase hex characters
\* that is the hash of the source's current bytes, and output paths named
\* {stem}-{hash}.webp and {stem}-{hash}.jpg.
C10_RecordWellFormed ==
  (Running /\ lastCall.kind = "record") =>
    LET r == lastCall.rec.v
        stem == PathStem(lastCall.path)
    IN  /\ r.width > 0 /\ r.height > 0
        /\ Len(r.content_hash) = 8 /\ IsLowerHex(r.content_hash)
        /\ srcContent[lastCall.path] # Absent
        /\ r.content_hash = SubSeq(Sha256Hex[srcContent[lastCall.path]], 1, 8)
        /\ PathName(r.webp_path) = stem \o "-" \o r.content_hash \o ".webp"
        /\ PathName(r.jpeg_path) = stem \o "-" \o r.content_hash \o ".jpg"

\* a record reconstructed from the cache
C10_Witness == Running /\ lastCall.kind = "record" /\ lastCall.cached

\* C11: should_regenerate returns True exactly when the cache has no entry
\* for the path or the current mtime is strictly greater than the stored one;
\* for equal mtimes it returns False.
C11_ShouldRegenerateIffNewer ==
  Called("should_regenerate") =>
    LET stored == probe.args[1]
        p == probe.args[2]
        current == probe.args[3]
    IN  /\ probe.result = (p \notin DOMAIN stored \/ current > stored[p])
        /\ (p \in DOMAIN stored /\ current = stored[p]) => probe.result = FALSE

\* an entry whose stored mtime is newer than the file's: not regenerated
C11_Witness ==
  /\ Called("should_regenerate")
  /\ probe.args[2] \in DOMAIN probe.args[1]
  /\ probe.args[3] < probe.args[1][probe.args[2]]
  /\ probe.result = FALSE

\* C12: a source that fits into max_dim keeps its size; a larger one gets
\* max_dim as its larger side and no side larger than the source's.
C12_NoUpscale ==
  Called("calculate_thumbnail_dimensions") =>
    LET w == probe.args[1]
        h == probe.args[2]
        max_dim == probe.args[3]
        r == probe.result
    IN  IF MaxOf(w, h) <= max_dim
        THEN r = << w, h >>
        ELSE /\ MaxOf(r[1], r[2]) = max_dim
             /\ r[1] <= w /\ r[2] <= h

\* a small source and a limit far above it
C12_Witness ==
  /\ Called("calculate_thumbnail_dimensions")
  /\ MaxOf(probe.args[1], probe.args[2]) < probe.args[3]
  /\ probe.args[1] # probe.args[2]
  /\ probe.result = << probe.args[1], probe.args[2] >>

\* C13: for a source larger than max_dim both returned sides are positive
\* and the returned aspect ratio differs from the source's by less than 0.01.
C13_AspectRatioPreserved ==
  ( /\ Called("calculate_thumbnail_dimensions")
    /\ MaxOf(probe.args[1], probe.args[2]) > probe.args[3] )
  => LET w == probe.args[1]
         h == probe.args[2]
         tw == probe.result[1]
         th == probe.result[2]
         diff == tw * h - w * th
     IN  /\ tw > 0 /\ th > 0
         /\ 100 * (IF diff >= 0 THEN diff ELSE -diff) < th * h

\* C14: the tag structure filter_metadata serializes has no GPS group, no
\* deny-listed tag in any group, no embedded preview, and in every group
\* only tags of the allow-list.
C14_OnlyAllowListedTags ==
  Called("filter_metadata") =>
    LET out == probe.result
        allowed == [ g \in DOMAIN out.ifd |->
                       IF g = "0th" THEN SAFE_0TH_TAGS
                       ELSE IF g = "Exif" THEN SAFE_EXIF_TAGS ELSE {} ]
    IN  /\ "GPS" \notin DOMAIN out.ifd
        /\ ~out.thumbnail
        /\ \A g \in DOMAIN out.ifd :
             /\ out.ifd[g] \cap (SENSITIVE_EXIF_TAGS \cup SENSITIVE_0TH_TAGS) = {}
             /\ out.ifd[g] \subseteq allowed[g]

\* the hashed files of a base name in a directory listing
HashedFilesOf(dir, base) ==
  { f \in DOMAIN dir : \E c \in AssetContents : f = get_hashed_filename(base, c) }

\* C15: after write_with_hash the directory holds exactly one file matching
\* {stem}.*{ext}, the one just written with the given content and returned;
\* older hashed versions of the base name are gone, the hashed files of
\* other base names are unchanged, and the path depends on the content only.
C15_OneHashedFilePerBaseName ==
  Called("write_with_hash") =>
    LET content == probe.args[1]
        filename == probe.args[2]
    IN  /\ { f \in DOMAIN destDir :
               GlobMatch(f, PathStem(filename) \o ".", PathSuffix(filename)) }
             = {probe.result}
        /\ destDir[probe.result] = content
        /\ probe.result = get_hashed_filename(filename, content)
        /\ \A base \in AssetNames \ {filename} :
             \A f \in HashedFilesOf(probe.pre, base) :
               f \in DOMAIN destDir /\ destDir[f] = probe.pre[f]

\* the outcome of load_gallery_yaml on the file before and after the call
LoadedBefore == load_gallery_yaml(probe.pre)

LoadedNow == load_gallery_yaml(yamlFile)

\* a call of append_stub_entries with a default category on a file that loads
AppendedStubs ==
  /\ Called("append_stub_entries")
  /\ probe.args[2] # ""
  /\ ~LoadedBefore.raised

\* C16: append_stub_entries returns the number of given filenames that had
\* no entry in the YAML; afterwards the YAML holds the previous entries
\* unchanged and in their order, followed by one stub (default category,
\* empty title and description) per new filename, the previous categories
\* keep their order, and default_category is among the categories.
C16_StubsAppended ==
  AppendedStubs =>
    LET new == StubsToAdd(LoadedBefore.value[2], probe.args[1])
        before == LoadedBefore.value
    IN  /\ ~probe.result.raised
        /\ probe.result.value = Len(new)
        /\ ~LoadedNow.raised
        /\ LoadedNow.value[2] =
             before[2] \o [i \in 1..Len(new) |->
                             YamlEntry(new[i], probe.args[2], "", "")]
        /\ SubSeq(LoadedNow.value[1], 1, Len(before[1])) = before[1]
        /\ \E i \in 1..Len(LoadedNow.value[1]) : LoadedNow.value[1][i] = probe.args[2]

\* the positions of the declared categories that receive an image
Receiving(category_names, images) ==
  { i \in 1..Len(category_names) :
      \E k \in 1..Len(images) : category_map(category_names, images[k].category) = i }

\* C17: organize_by_category returns the declared categories in declared
\* order, each with its declared position as order_index, without the
\* categories that received no image; an image of an undeclared category is
\* skipped without raising; every image placed in a category has the name of
\* that category as its category, and every image of a declared category
\* appears exactly once.
C17_OrganizedInDeclaredOrder ==
  Called("organize_by_category") =>
    LET category_names == probe.args[1]
        images == probe.args[2]
        cats == probe.result.value
    IN  /\ ~probe.result.raised
        /\ \A i \in 1..Len(cats) :
              /\ cats[i].order_index + 1 \in 1..Len(category_names)
              /\ category_names[cats[i].order_index + 1] = cats[i].name
              /\ cats[i].images # << >>
              /\ \A k \in 1..Len(cats[i].images) :
                    cats[i].images[k].category = cats[i].name
              /\ \A j \in (i + 1)..Len(cats) :
                    cats[i].order_index < cats[j].order_index
        /\ { cats[i].order_index + 1 : i \in 1..Len(cats) } =
             Receiving(category_names, images)
        /\ \A k \in 1..Len(images) :
              Cardinality({ << i, n >> \in (1..Len(cats)) \X (1..Len(images)) :
                              /\ n <= Len(cats[i].images)
                              /\ cats[i].images[n] = images[k] })
                = IF category_map(category_names, images[k].category) = 0
                    THEN 0
                    ELSE Cardinality({ n \in 1..Len(images) : images[n] = images[k] })

\* the file lists a category twice or has two image entries of one filename
DuplicatesInFile(file) ==
  /\ file # JAbsent /\ file # YNull
  /\ \/ ~NoDuplicates(file.categories)
     \/ \E i, j \in 1..Len(file.images) :
          /\ i < j
          /\ "filename" \in DOMAIN file.images[i]
          /\ "filename" \in DOMAIN file.images[j]
          /\ file.images[i].filename = file.images[j].filename

DuplicatesGiven(categories, entries) ==
  \/ ~NoDuplicates(categories)
  \/ \E i, j \in 1..Len(entries) : i < j /\ entries[i].filename = entries[j].filename

\* C18: load_gallery_yaml raises ValueError for a file that lists a category
\* twice or two image entries with the same filename; save_gallery_yaml
\* raises ValueError for duplicate categories or duplicate filenames and
\* leaves the file as it was (absent, or with its previous content).
C18_DuplicatesRejected ==
  /\ (Called("load_gallery_yaml") /\ DuplicatesInFile(probe.pre)) =>
        /\ probe.result.raised
        /\ IsValueError(probe.result.exc)
        /\ yamlFile = probe.pre
  /\ (Called("save_gallery_yaml") /\ DuplicatesGiven(probe.args[1], probe.args[2])) =>
        /\ probe.result.raised
        /\ probe.result.exc = "ValueError"
        /\ yamlFile = probe.pre

\* save_gallery_yaml with a filename given twice, on an existing file that
\* loads and holds other data
C18_Witness ==
  /\ Called("save_gallery_yaml")
  /\ NoDuplicates(probe.args[1])
  /\ DuplicatesGiven(probe.args[1], probe.args[2])
  /\ probe.pre # JAbsent /\ probe.pre # YNull
  /\ ~LoadedBefore.raised
  /\ probe.pre # YMap(probe.args[1], probe.args[2])
  /\ probe.result.raised

\* a call of hash_file on a file that exists
HashedFile ==
  /\ Called("hash_file")
  /\ probe.args[2] \in DOMAIN probe.args[1]
  /\ probe.args[1][probe.args[2]] # Absent

\* hash_bytes of the same bytes again yields the result, which is 8
\* lowercase hexadecimal characters; hash_file of an existing file is
\* hash_bytes of its contents
HashIsStable ==
  /\ Called("hash_bytes") =>
        /\ probe.result = hash_bytes(probe.args[1])
        /\ Len(probe.result) = 8
        /\ IsLowerHex(probe.result)
  /\ HashedFile =>
        /\ ~probe.result.raised
        /\ probe.result.value = hash_bytes(probe.args[1][probe.args[2]])

CalledForSource == Running /\ lastCall.path # "" /\ lastCall.check.source

\* the conditions of a cache hit, as the call found them
CacheUsable ==
  /\ lastCall.check.entry
  /\ lastCall.check.mtime
  /\ lastCall.check.hash
  /\ lastCall.check.blur
  /\ lastCall.check.files

\* C20: generate_thumbnail returns a record made from the cache only if an
\* entry exists for the path, the source's mtime is not greater than the
\* stored one, the fresh content hash equals the entry's, the entry has blur
\* placeholder data when placeholders are enabled, and both cached output
\* files exist; if one of these fails, the call takes the regeneration path
\* and returns no cached data.
C20_CachedOnlyIfUsable ==
  CalledForSource =>
    /\ (lastCall.kind = "record" /\ lastCall.cached) => (cfgCache /\ CacheUsable)
    /\ ~CacheUsable =>
          /\ ~lastCall.cached
          /\ lastCall.kind \in {"record", "none"}

\* a source replaced with its mtime kept, whose entry names existing files:
\* the hash comparison alone sends the call to regeneration
C20_Witness ==
  /\ CalledForSource
  /\ lastCall.check.entry /\ lastCall.check.mtime /\ lastCall.check.files
  /\ ~lastCall.check.hash
  /\ lastCall.kind = "record" /\ ~lastCall.cached

\* the latest call is for a path the previous build generated a record for,
\* with the cache enabled and flushed, the same configuration now and no
\* source modified in between
CalledAgainUnchanged ==
  /\ pc = "batch" /\ idx >= 1 /\ lastCall.path # ""
  /\ cfgCache
  /\ prevRun.done /\ prevRun.cacheOn
  /\ prevRun.blur = cfgBlur
  /\ prevRun.mods = mods
  /\ lastCall.path \in prevRun.ok

\* C21: after generate_thumbnail has regenerated the thumbnail of a path and
\* returned a record (cache enabled), the next call for the same path, with
\* the source and the configuration unchanged, is served from the cache
\* without regenerating, also when blur placeholders are enabled and the
\* image has no placeholder.
C21_RegenerationRestoresFreshness ==
  CalledAgainUnchanged =>
    /\ lastCall.kind = "record"
    /\ lastCall.cached
    /\ lastCall.after = lastCall.before

\* C22: generate_batch runs the loop body for the source paths in list
\* order, each once; a failed item (None returned or an exception) does not
\* stop the loop, which has run for every path when the batch returns; the
\* progress callback has been called once after each item, with (i, N) for
\* i = 1..N in increasing order, for failed items as for successful ones.
C22_ListOrderAndProgress ==
  pc \in {"batch", "done", "aborted"} =>
    /\ idx <= Len(source_paths)
    /\ processed = SubSeq(source_paths, 1, idx)
    /\ progress = [i \in 1..idx |-> << i, Len(source_paths) >>]
    /\ pc = "done" => idx = Len(source_paths)
    /\ \A i \in 1..Len(successful) : successful[i].source_path \in Range(processed)
    /\ \A i \in 1..Len(failed) : failed[i] \in Range(processed)

\* a batch that has returned, whose first item raised and whose second item
\* gave a record
C22_Witness ==
  /\ pc = "done" /\ Len(source_paths) = 2
  /\ failed = << source_paths[1] >>
  /\ Len(successful) = 1 /\ successful[1].source_path = source_paths[2]
  /\ progress = << << 1, 2 >>, << 2, 2 >> >>

\* C23: update_entry stores under the path an entry whose fields all come
\* from the given record and the source's current mtime, whatever entry was
\* there before; the entries of the other paths are unchanged, and
\* last_updated is not earlier than before.
C23_UpdateEntryOverwrites ==
  Called("update_entry") =>
    LET before == probe.args[1]
        source_path == probe.args[2]
        thumbnail == probe.args[4]
        after == probe.result
        entry == after.entries[source_path]
    IN  /\ DOMAIN after.entries = DOMAIN before.entries \cup {source_path}
        /\ \A p \in DOMAIN before.entries \ {source_path} :
              after.entries[p] = before.entries[p]
        /\ after.last_updated >= before.last_updated
        /\ after.cache_version = before.cache_version
        /\ DOMAIN entry = CacheEntryFields
        /\ entry.source_path = source_path
        /\ entry.source_mtime = probe.args[3]
        /\ entry.webp_path = thumbnail.webp_path
        /\ entry.jpeg_path = thumbnail.jpeg_path
        /\ entry.content_hash = thumbnail.content_hash
        /\ entry.thumbnail_generated_at = thumbnail.generated_at
        /\ entry.metadata_stripped = thumbnail.metadata_stripped
        /\ entry.width = thumbnail.width /\ entry.height = thumbnail.height
        /\ entry.webp_size_bytes = thumbnail.webp_size_bytes
        /\ entry.jpeg_size_bytes = thumbnail.jpeg_size_bytes
        /\ entry.source_size_bytes = thumbnail.source_size_bytes
        /\ entry.blur_placeholder_hash.some = thumbnail.blur_placeholder.some
        /\ entry.blur_placeholder_generated_at.some = thumbnail.blur_placeholder.some
        /\ thumbnail.blur_placeholder.some =>
              /\ entry.blur_placeholder_hash.v = thumbnail.blur_placeholder.v.source_hash
              /\ entry.blur_placeholder_generated_at.v
                   = thumbnail.blur_placeholder.v.generated_at

\* an entry with blur placeholder fields is replaced by the entry of a
\* record without placeholder, while another path has an entry
C23_Witness ==
  /\ Called("update_entry")
  /\ probe.args[2] \in DOMAIN probe.args[1].entries
  /\ probe.args[1].entries[probe.args[2]].blur_placeholder_hash.some
  /\ ~probe.args[4].blur_placeholder.some
  /\ ~probe.result.entries[probe.args[2]].blur_placeholder_hash.some
  /\ DOMAIN probe.result.entries # {probe.args[2]}

\* in the build after an aborted one, with the sources as the aborted build
\* saw them: generate_thumbnail has been called for an image whose thumbnail
\* the aborted build had generated
CalledAfterAbort ==
  /\ pc = "batch" /\ idx >= 1 /\ lastCall.path = source_paths[idx]
  /\ cfgCache
  /\ prevRun.aborted /\ prevRun.mods = mods
  /\ lastCall.path \in prevRun.generated

C25_SizeSearchReturns ==
  Called("_optimize_data_url_size") =>
    LET img == probe.args[1]
        max_size_bytes == probe.args[2]
        r == probe.result
        n == Len(r.tried)
        Fits(q) == DataUrlLen(JpegBytes(img, q)) <= max_size_bytes
    IN  /\ r.kind = "return"
        /\ n >= 1 /\ r.tried[1] = probe.args[3]
        /\ \A i \in 1..n : r.tried[i] >= QUALITY_FLOOR
        /\ \A i \in 1..n - 1 : r.tried[i + 1] = r.tried[i] - QUALITY_STEP
        /\ \A i \in 1..n - 1 : ~Fits(r.tried[i])
        /\ r.quality = r.tried[n]
        /\ r.size = DataUrlLen(JpegBytes(img, r.quality))
        /\ ~Fits(r.tried[n]) => r.tried[n] - QUALITY_STEP < QUALITY_FLOOR

\* the part of C25 that holds: for a starting quality of at least 10
C25_SizeSearchFromTen ==
  Called("_optimize_data_url_size") /\ probe.args[3] >= QUALITY_FLOOR =>
    C25_SizeSearchReturns

\* generate_thumbnail has written the two thumbnails of the last path and
\* called generate_blur_placeholder for it, which returned None
PlaceholderFailed ==
  /\ pc = "batch" /\ idx >= 1 /\ lastCall.path = source_paths[idx]
  /\ cfgBlur
  /\ \E e \in ioLog : e.op = "write" /\ e.by = lastCall.path
  /\ generate_blur_placeholder(srcContent[lastCall.path], clock) = None

\* C26: when generate_blur_placeholder fails (it returns None, it does not
\* raise), generate_thumbnail returns a record for the image without a
\* placeholder, and generate_batch appends the record to the successful
\* list and leaves the path out of the failed list.
C26_PlaceholderFailureKeepsRecord ==
  PlaceholderFailed =>
    /\ lastCall.kind = "record" /\ ~lastCall.cached
    /\ lastCall.rec.v.source_path = lastCall.path
    /\ lastCall.rec.v.blur_placeholder = None
    /\ Len(successful) >= 1 /\ successful[Len(successful)] = lastCall.rec.v
    /\ lastCall.path \notin Range(failed)

\* a panorama, whose 20x1 placeholder fails validation, has its thumbnails
\* generated with blur placeholders enabled
C26_Witness ==
  /\ PlaceholderFailed
  /\ srcContent[lastCall.path] = "pano"
  /\ lastCall.kind = "record"
  /\ lastCall.rec.v.blur_placeholder = None
  /\ lastCall.rec.v.webp_path \in DOMAIN thumbDir

\* generate_thumbnail has regenerated the thumbnail of a decodable source
\* for which filter_metadata returns None
FilterFailedOnRegeneration ==
  /\ pc = "batch" /\ idx >= 1 /\ lastCall.path = source_paths[idx]
  /\ lastCall.kind # "raise" /\ ~lastCall.cached
  /\ ImageTable[srcContent[lastCall.path]].decodable
  /\ FilterMetadataOf(srcContent[lastCall.path]) = None

\* C27: when filter_metadata returns None for the source (it does not
\* raise), generate_thumbnail writes the WebP and the JPEG output, both with
\* empty EXIF, and returns a record whose metadata_stripped is false and
\* whose warning is set.
C27_FilterFailureStillSaves ==
  FilterFailedOnRegeneration =>
    /\ lastCall.kind = "record"
    /\ \A f \in {lastCall.rec.v.webp_path, lastCall.rec.v.jpeg_path} :
          /\ f \in DOMAIN thumbDir
          /\ thumbDir[f].owner = lastCall.path
          /\ thumbDir[f].exif = ""
          /\ \E e \in ioLog : e.op = "write" /\ e.path = f /\ e.by = lastCall.path
    /\ lastCall.rec.v.webp_path # lastCall.rec.v.jpeg_path
    /\ ~lastCall.rec.v.metadata_stripped
    /\ lastCall.rec.v.metadata_strip_warning.some

\* the thumbnails of a 600x400 image without loadable EXIF were written
C27_Witness ==
  /\ FilterFailedOnRegeneration
  /\ srcContent[lastCall.path] = "img2"
  /\ lastCall.kind = "record"
  /\ lastCall.rec.v.webp_path \in DOMAIN thumbDir
  /\ ~lastCall.rec.v.metadata_stripped

\* the name is '{stem}.{8 hex chars}{ext}' for the stem and the extension
\* of base_filename
HashedNameOf(f, base_filename) ==
  \E h \in {SubSeq(f, Len(PathStem(base_filename)) + 2,
                   Len(f) - Len(PathSuffix(base_filename)))} :
    /\ Len(h) = CONTENT_HASH_LENGTH /\ IsLowerHex(h)
    /\ f = PathStem(base_filename) \o "." \o h \o PathSuffix(base_filename)

\* C28: write_with_hash deletes only files named '{stem}.{8 hex chars}{ext}'
\* for the written base name; a file of another shape in the destination
\* directory ('{stem}.min{ext}', any other file of the user) is not deleted.
C28_OnlyHashedFilesDeleted ==
  Called("write_with_hash") =>
    \A f \in DOMAIN probe.pre \ DOMAIN destDir : HashedNameOf(f, probe.args[2])

\* the part of C28 that holds: a file is deleted only if its name starts
\* with '{stem}.' and ends with ext
C28_DeletedShareStemAndExt ==
  Called("write_with_hash") =>
    \A f \in DOMAIN probe.pre \ DOMAIN destDir :
      /\ StartsWith(f, PathStem(probe.args[2]) \o ".")
      /\ EndsWith(f, PathSuffix(probe.args[2]))

\* generate_thumbnail has regenerated the thumbnail of a source that the
\* build before had regenerated too, with no change to the sources since
RegeneratedAgain ==
  /\ pc = "batch" /\ idx >= 1 /\ lastCall.path = source_paths[idx]
  /\ lastCall.kind = "record" /\ ~lastCall.cached
  /\ prevRun.done \/ prevRun.aborted
  /\ prevRun.mods = mods
  /\ lastCall.path \in DOMAIN prevRun.regen

\* C29: regenerating the thumbnail of an unchanged source again yields the
\* two output filenames of the regeneration before, and leaves the output
\* directory with the same files named '{stem}-{hash}.webp/.jpg' for the
\* stem of the source as the regeneration before left: the two outputs.
C29_RegenerationIdempotent ==
  RegeneratedAgain =>
    /\ lastCall.rec.v.webp_path = prevRun.regen[lastCall.path].webp
    /\ lastCall.rec.v.jpeg_path = prevRun.regen[lastCall.path].jpeg
    /\ StemOutputs(thumbDir, PathStem(lastCall.path))
         = prevRun.regen[lastCall.path].files
    /\ StemOutputs(thumbDir, PathStem(lastCall.path))
         = {lastCall.rec.v.webp_path, lastCall.rec.v.jpeg_path}

\* with the cache disabled, the second build regenerates what the first did
C29_Witness ==
  /\ RegeneratedAgain
  /\ ~cfgCache /\ prevRun.done
  /\ lastCall.rec.v.webp_path \in DOMAIN thumbDir
  /\ lastCall.rec.v.webp_path = prevRun.regen[lastCall.path].webp

\* C30: when generate_batch has returned, the two output files of every
\* record of the successful list exist in the output directory, and so do
\* the two output files named by every cache entry written during the batch.
C30_OutputsExistAtReturn ==
  pc = "done" =>
    /\ \A i \in 1..Len(successful) :
          /\ successful[i].webp_path \in DOMAIN thumbDir
          /\ successful[i].jpeg_path \in DOMAIN thumbDir
    /\ \A p \in UpdatedEntries :
          /\ cache.entries[p].webp_path \in DOMAIN thumbDir
          /\ cache.entries[p].jpeg_path \in DOMAIN thumbDir

\* the part of C30 that holds: for a batch of one source path
C30_OutputsExistForOnePath ==
  Len(source_paths) = 1 => C30_OutputsExistAtReturn

====
